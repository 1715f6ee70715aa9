# A specification of InitRunner in TLA+

InitRunner runs AI agents from YAML roles: once, in a REPL, behind an HTTP server,
in a daemon whose triggers fire runs for weeks, or as a flow of several agents.  This
directory specifies the parts of it that several threads, several processes or several
lifetimes of a process share, checks them with TLC on small instances, and proves the
most important properties with TLAPS for every size.  Source paths below are relative
to `src/initrunner/`.  `PROJECT.json` maps every definition to the lines it stands for
and lists the runs, the mutants, the findings, the hazards and the theorems.

## 1. The system

### Components, their state and their operations

| Component | State | Operations | What is hard | What makes it correct |
|---|---|---|---|---|
| Circuit breaker, `runner/circuit_breaker.py` | state, failure count, opening time, one probe flag, under a lock | `allow_request`, `record_success`, `record_failure`, `release_probe` | results of runs admitted in an earlier state arrive late; the probe's run may never happen | one probe per HALF_OPEN episode; the slot is never lost; a closed breaker is below its threshold |
| Daemon, `runner/daemon.py` | semaphore, in-flight count, dispatcher, breaker, budgets, stop event | `_on_trigger`, retries, `_apply_reload`, `_restart_dispatcher`, drain, stop | a thread per trigger, the reload thread and the main thread meet between any two calls; every skip path has its own clean-up | no slot leaks; the drain waits for what is in flight; shutdown ends and stops everything |
| Token budgets, `runner/budget.py` | counters per lifetime, day and week, pending reservations, a row in `budget_state` | `check_before_run`, `record_usage`, `snapshot`, `restore`, `update_limits` | reserve and record are far apart, runs retry or raise, midnight passes in between, three calls make one save | counters are exact up to the reservations; overshoot is bounded; spend survives a restart |
| Audit log, `audit/logger.py`, `audit/_hmac.py` | SQLite table with an HMAC chain, the key file, a cached key and an insert counter per process | `log` and its relatives, `prune`, `verify_chain`, creation of the key | several processes share the database and race for the key file; prunes and clocks interfere; processes die in a transaction | the chain verifies, does not fork, damage is found |
| Flow engine, `flow/graph.py`, `flow/orchestrator.py`, `flow/checkpoint.py` | per run: what each service sent and its last result; across runs: the checkpoint journal | agent step, join, policy check, record, replay, prune, resume | branches run concurrently, a process dies or times out among them, services fail or pause, writes fail silently, and the next process goes on from the rows | finished work is not repeated or lost; what is kept fits together |
| Approvals, `services/execution.py`, `audit/logger.py` | rows of `pending_approvals` with the message history | pause, decide, resume, resolve | two resumes of one run, a crash between execution and resolution, a second pause, a row that was not written | an approved call is executed once, a denied one never; nothing is lost silently; nothing is executed unseen |
| Always-on services, `services/always_on.py` | a state file per service, lock files, a process | start, stop, heal, list, forced run | processes die, their one-shot runs outlive them, a purge stops midway, pids are reused; `_heal_state` writes without the lock | at most one process per service; the state file tells the truth |
| Hot reload and handles, `runner/hot_reload.py`, `runner/reload.py` | watcher, debounce timer, swapped handle | file event, debounce, load, swap | a reload meets runs and another reload | no run sees half of a reload |
| Schedule queue, `triggers/schedule_queue.py` | pending one-shot timers | `schedule`, fire, `cancel_all` | timers race `cancel_all`; a reload makes a new queue; the calls of one run go on in parallel | the bound of a queue holds; no follow-up is lost or run twice |
| Clarification, `agent/clarify.py`, `runner/bot.py`, `runner/daemon.py` | one pending question per conversation | ask, answer, time out | late or second answers, a second question for the same key | an answer reaches the run that waits for it; no message goes to a question nobody waits for |
| Conversations and rate limiter, `runner/_conversations.py`, `server/` | LRU and TTL maps, token bucket | get, save, evict, allow | two messages of one conversation at a time | no turn is lost but with its conversation |
| Ingestion, `ingestion/pipeline.py`, `ingestion/manifest.py`, `stores/lance_document_store.py` | a document store per agent: chunks, hash per source, embedding model, manifest of managed sources; a lock per process | ingest, add a managed source, delete, purge, wipe | no transaction spans two commits, a wipe removes the directory file by file, the lock is one process's own, the files change while they are read | a hash tells what was stored; models are not mixed; managed files are kept |
| Triggers and dispatcher, `triggers/` | threads and stop events | `start_all`, `stop_all` | one of several fails to start | all or none |
| Autonomous loop, `runner/autonomous.py`, `runner/run_budget.py` | iteration, token and time budgets, reflection state | iterate, finish, give up | several limits, whichever first | final status and budget agree |
| Spawn pool, `agent/tools/spawn.py` | futures of sub-agents | spawn, await, cancel | completion against cancel and limit | no result is lost, the limit holds |

The rest (CLI, dashboard, wizards, registry, stores, sandboxes, MCP, A2A,
sinks, telemetry, evaluation, credentials) is listed in `PROJECT.json` with the reason it
is left out: I/O adapters, file generation, user interface, or another system's protocol.

### How they interact

A trigger thread calls `DaemonRunner._on_trigger` synchronously.  It asks the **breaker**,
then takes a slot of the **semaphore**, then asks the **budget**, counts itself in flight,
executes the agent (possibly several attempts), records usage and outcome, writes to the
**audit log**, and gives slot, count and probe back.  The **reload** thread replaces the
breaker and the dispatcher under its feet; the **main** thread drains and stops.  A
**flow** runs its services as tasks of one event loop; each finished service writes a
checkpoint through the same audit database, and a later process reads it.  The database is the
meeting point of processes: audit rows, checkpoints, approvals and budget snapshots are
all written by whatever process is alive.  An agent of the daemon may **schedule**
follow-ups, whose timers call `_on_trigger` like any trigger, and may **ask** the human behind a
conversation, whose answer arrives as the next trigger of the same key.  An **always-on
service** is such a daemon, started and supervised by commands that share only a state
file, a lock file and the process table with it.  The **ingestion** jobs of the command
line and of the dashboard meet in the store of an agent.

## 2. The modules

| Module | Models | Composes |
|---|---|---|
| `CircuitBreaker` | the breaker as functions from state to state, one per public method | - |
| `DaemonRunner` | trigger threads, reload, shutdown | extends `CircuitBreaker` |
| `AuditChain` | processes and threads that sign, insert, prune and crash over one database and key file | - |
| `AuditVerify` | the loop of `verify_chain`, as a recursive function of the id it has come to | extends `AuditChain` |
| `TokenBudget` | the tracker, its snapshots and restarts | - |
| `FlowPromise` | what a durable flow promises over all its processes (abstract) | - |
| `FlowResume` | one durable flow over several processes | implements `FlowPromise` |
| `Approvals` | the pauses of one run, its rows, and the processes that resume it | - |
| `AlwaysOn` | one service: its daemon, its files, the commands and the process table | - |
| `Scheduling` | the daemon's follow-ups: queue, timers, tools, reload, shutdown | - |
| `Conversation` | messages, questions, runs and the history store of chat conversations | - |
| `Ingestion` | the jobs of one agent's document store | - |
| `MC*` | constants, symmetry and graphs for TLC | extend the above |
| `*Proofs` | theorems; those about `FlowResume` and `Ingestion` are in `DurableProofs` | extend the above |

### CircuitBreaker and DaemonRunner

A breaker is a record; `AfterAllow`, `AfterRecord`, `AfterRelease` are what the methods leave of
it.  Every method holds the breaker's lock throughout, so each is one step.  Time is one
bit: the reset timeout has or has not passed since the breaker opened
(`ResetTimeoutElapses` sets it).  The failure counter saturates at `FailureCap`, which is
at least the threshold, the only value it is compared with.

`pc[t]` is where a trigger thread is in `_on_trigger` and `_on_trigger_inner`: `Fire` (the
breaker), `AcquireSlot` or `SlotRefused` (the semaphore), `BudgetAllows` or `BudgetRefuses`,
`EnterInFlight`, `Attempt` (a run of the agent with a free outcome, retried while it is
transient and attempts are left), `RunRaises`, `RecordOutcome`, `PostProcess`,
`LeaveInFlight`, `ReleaseSlot`, `FinishTrigger` (the finally that gives back the probe).
`ReloadBreaker` replaces the breaker by a fresh one or none at any moment;
`RestartStopsOld` and `RestartStartsNew` are the two halves of `_restart_dispatcher`.  The
main thread goes through `StopSignal`, `Drained` or `GraceElapses`, `StopTrigger` for each
trigger of the dispatcher it entered, and `Exit`, at which busy threads are killed, for
they are daemon threads.  `probes` and `atStop` are history variables.

The audit events, sinks, memory and conversation updates of a trigger are one step
(`PostProcess`) with no state of its own: nothing here reads them back.

### AuditChain and AuditVerify

`Logger` is the set of processes and `Thread` a set of pairs (process, thread).  A thread
uses the cached key (`UseCachedKey`) or looks for the file (`LookForKey`, `ReadKeyFile`,
`PlaceKey`: the link that fails if the file has come into being meanwhile), then takes its
logger's lock (`Lock`), opens `BEGIN IMMEDIATE` and reads the tip (`Begin`), inserts and
counts (`Insert`), and every `Interval` inserts prunes in two autocommitted deletes
(`PruneExpired`, `PruneExcess`) between which other processes may write.  `LogFails` is any
exception: `log` never raises.  `LogOtherEvent` is a row of another table, which
advances the same prune counter.  `Crash` kills a process with all its threads and lets a
new one start.  A record carries any time up to now, since clocks are skewed and imports
carry old times.  A hash is the tuple of what it is computed from, as injective as the
HMAC.  One legacy unsigned row stands before the chain.

`AuditVerify!Verify` is the loop of `verify_chain`: what it expects of a row depends on the
previous row, on whether a signed row was seen, and on the gap between their ids.

### TokenBudget

`tracker` is the `DaemonTokenTracker`, `saved` the agent's row in `budget_state`.  `Check`,
`RecordUsage` (or `RunRaises`, which records nothing), `TakeSnapshot` and `Save` are the
calls of a trigger thread, each atomic under the tracker's or the database's lock;
a retry goes from `Save` back to the run without a new reservation, as in the
code.  `Restart` is a crash at any step, with the restore and its resets.  `ChangeZone`
is `update_limits` after a reload, of which only the timezone is modelled.  The clock
counts half-days; with an offset of 0 or 1 half-day a timezone moves the date by one day.  A token
costs one unit of money, and a limit of 0 is no limit.  `accounted` and `accountedDay` are history: the
restored counter plus every token recorded since.  `openAtReset` is history too: the reservations that were pending at
the last daily reset.  A run that raises keeps its reservation, so that this number is not bounded
by the runs in flight, and the bound on a day's overshoot (`OvershootBounded`) has it beside `Slack`, what
the admitted runs may still use.

### FlowResume and FlowPromise

One flow run (one `flow_run_id`) over up to `MaxRuns` processes, of which the first is the
original and the others are resumes.  `Pred` is the delegation graph.  A service that `Arrives`
(everything upstream has sent something) is replayed if its row is replayable
(`Replay`), otherwise skipped if the policy or the depth check denies it (`Skip`), otherwise executed
(`Begin`, `Complete`), and branches interleave freely.  `Complete` includes the checkpoint write
(`Record`), which may fail silently up to `MaxLost` times: no await separates the two, and a
crash between them leaves what a crash before them leaves.  A failed or paused run sends
an empty prompt on.  `Interrupt` is a crash, a timeout or an exception of the graph; `Finish`
prunes if the process is the first and saw no failure.  An output is identified by the number of
the process in which it was made, which is what a row is compared by: a row records which output of
each predecessor it was made from (`used`).

`FlowPromise` has two variables only: `done`, the services whose work is kept, and
`excused`, those of which some run was not kept.  A service becomes done once, never
undone, and only when each of its predecessors is done or excused.  The refinement
mapping takes the replayable rows of the journal for `done` and the history variable
`unsaved` for `excused`, and the whole set once the flow was pruned.

### Approvals

One run and the processes that resume it, `Resumer`, some of them the HTTP `Server`.
`rows` is the run's part of `pending_approvals`, one row a call; `batch[p]` is what the history of
the p-th pause ends with.  A resumer is where `resume[r].at` says: `Decide` is the human's answer to
every row the list shows; `Refuse` and `Load` are the second read of the rows, in
`resume_run`, and its checks; `Mismatch` is PydanticAI's refusal of decisions that are not
those of the history; `Complete` and `PauseAgain` execute approved calls and come back with
a result or with another pause.  Then each row is a commit of its own: `Resolve` (an UPDATE
that spares resolved rows), `Resolved`, `Persist` (an INSERT that its primary key may refuse),
`Persisted`, after which the server writes the rows of the pause once more.  `WriteFails` is a
write that both writers only log, `Dies` the death of the process, or an exception, at any
point.  Nothing in the code keeps two resumes of one run apart, so the properties are
stated relative to what really happens then: `overlap` holds the calls two resumes had
loaded at once, `torn` those of a resume that answered them and could not resolve all,
`unsaved` those whose row was lost.

### AlwaysOn

`disk` is the state file, `roles` the generations of the role that exist, `table` the birth
that lives under each pid (0: none): a pid is reused by a `Stranger` or a later daemon, and the
identity recorded in the state (boot and start tick) is the pair of pid and birth.  `lock` is the flock,
which the kernel drops with its holder; `job[m]` is the command a manager runs under it with its
copy of the state.  `Enter` loads the state; `FindsStarted`, `FindsDead`, `FindsStopped` and
`FindsUnverifiable` are what a look at the process gives; a start goes on with `Materialize` (a new
generation; `_gc_old_roles`), `RoleMissing` or `Launch`, then `Confirm`, `ExitedImmediately` or `Unproven`;
a stop, a purge or a forced run with `Terminate`, `Gone`, `Kill` or `StopsWaiting`, then `RecordStop`, `Purge`
or `TickBegins` and `TickEnds`, which restarts the daemon it stopped.  A purge is an `rmtree`: `RemovesState` and
`RemovesRole` take the files in any order, until `Purged`, or until `PurgeFails` or the death of the manager leaves the
rest.  `Crash` kills a manager at any point, and the kernel drops its lock.  A one-shot run is a child of the manager, and goes on without
it: `orphan[m]` is the first birth that could come after that, and the run stays until `OrphanEnds`.  `status` and `list` hold no lock: a reader loads the state (`Load`), looks at the process
(`SeesAlive`) and may write a repaired copy of what it loaded (`Heal`).  History: `loose` are
daemons that the code knows it lets go of, `overwritten` those whose record a stale repair replaced,
`adrift` says that such a repair wrote another generation than it found, or that a purge is under way or was cut
short, and `signalled` are the births that were
sent a signal.

### Scheduling

A reload builds another queue and other tools (`NewQueue`, `NewTools`) but leaves the timers
of the old queue armed and the runs in flight with the tools they have; so queues and tools are
numbered, and `pending[q]`, `count[q]` are those of the q-th.  A trigger's thread (`Trip`) and a
timer's (`Fire`, which takes its task out of the queue under the lock) both enter `_on_trigger`
(`Admit`, `Refuse`).  The toolset is built without `sequential`, so a run makes several calls at a time, each in a
thread of its own, and a run that has timed out leaves them behind; a call is named by the follow-up it makes.  It takes
four steps: `PassLimit` reads the count, `Schedule` or `TurnedAway` asks the queue under its lock, and `ReadCount` and `WriteCount`
are the unlocked `+=`, of which two may overlap and one be lost.  `hand[a]` are the calls a run waits for, `own[a]` what
it has scheduled.  `Signal` is the shutdown with
`cancel_all` of the queue of the moment, `Exit` the end of the process with all its timers.

### Conversation

A message is a thread.  If a question of its conversation is open it `Answers` it and ends there;
otherwise it `Enters`, is `Refuse`d or `Admit`ted as a run, which takes the history of the conversation
from the store and puts it back when it ends (`Finish`).  A run may `Ask`, whereby its question
takes the place of any other of the conversation, then `Wake` or `TimeOut`, then `Leave`, the
`finally` that closes whichever question is there.  `recent` and `turns` are the store, with its
expiry and its bound.  `Serial` are the conversations of Telegram, whose handler awaits the run its
message starts before the library takes the next update.  History: `due` messages were sent to a run that waited; `lost` messages replaced an answer that had not
been read, or came after it; `crowded` conversations had two runs at once; `evicted` ones
were dropped by the store.

### Ingestion

`disk` is what each source holds, `store` the agent's document store, `job[a]` what a thread of
some process (`home[a]`) does.  A job is a `run` (every source of the role and of the manifest, and a
purge of all others), a `managed` ingest (an upload or a URL of the dashboard) or a `delete`.  A step is one
commit of the store, or one read that later steps rely on: the sources are `Resolved` before the lock
(`Acquire`, a lock per process), then `CheckModel` and `Wipe`; `Classify`, `Extract` and
`Hash` read the files three times; `Drop`, `Add` and `Label` are the three commits of
`replace_source`; `Empty` and `Forget` the two of `delete_source`; `Fetch` reads the pages; `RecordModel` writes the model;
`ReadManifest` and `WriteManifest` are two commits without a lock.  A result names its source by a `Path`, and the `Path` of
a URL is not the URL, so that what a managed job may register (`Registrable`) are files only.  `Wipe` is an `rmtree` that comes
to its end; `WipeCut` one that an error or a death stops, which leaves each of the three tables (`file_metadata` with its hashes, the chunks, and the
metadata with dimensions, model and manifest) or not, or no directory (`Remains`).  A later ingest gives such a store its dimensions again (`Replaced`).  `Edit` changes a source at
any time, `Fails` ends a job with an exception, `Dies` all jobs of a process, and `Gone` a
job whose tables another process has removed.  The history variables name the races that the code does not
exclude: `raced` (a file changed between its reading and its hashing), `torn` (a job
ended within a replacement, or the removal of the store was cut short), `crossed` (two processes in one source), `late` (a managed source registered, or uploaded
again, while a run that had not seen it went on), `contended` (a source whose entry a wipe, or
a stale copy of the manifest, overwrote) and `together` (two processes ingested at once).

## 3. The runs

| Run | Instance | What it shows |
|---|---|---|
| `daemon` | 1 trigger, 2 replacements, 2 slots, 2 attempts, threshold 2, `FairSpec` | no leak of slot, count or probe on any path; the drain covers the signal; shutdown terminates; a claimed probe is decided or given back |
| `audit_chain` | processes of 2 and 1 threads, 4 ids, 2 days, 2 keys, 1 legacy row | the chain verifies and never forks; the verifier decides the formula `ChainOk`, on the table and on every table one removal or one damaged row away; damage is reported |
| `budget` | 2 threads, 2 attempts, lifetime 4, daily 2, weekly cost 3, 3 half-days, 2 timezones | the counters are exact up to reservations; overshoot is bounded by what is in flight and what the last reset left pending |
| `flow_resume` | 5 services (fan-out of three, one of them denied, and a fan-in), 3 processes, 1 lost write | no repeated or lost work, a consistent journal that is given up only when the code says so, `FlowPromise` implemented |
| `approvals` | 3 calls, 2 pauses, the command line and the server, 1 fault | a call runs once and a denied one never, a recorded decision stands, no pause is forgotten, no call is executed unseen, but in the cases named by the history variables |
| `always_on` | 2 managers, 1 reader, 2 pids, 2 births, 3 generations | daemons are accounted for and alone, and a forced run that outlives its manager meets a later daemon at most; no stranger is signalled; the role file in use exists, but after a stale repair or a purge cut short |
| `scheduling` | 1 trigger, 2 follow-ups, 2 slots, 2 per run, 1 per queue, 1 reload, `FairSpec` | no follow-up is lost, run twice or left armed; a queue is bounded and no call refused too early, however calls overlap; a follow-up settles |
| `conversation` | a concurrent and a serial conversation, 4 messages in all ways, 3 runs at once, 2 questions a run, a store of 1 | open questions are those of waiting runs; an answer is read; stored turns are kept |
| `ingestion` | a configured file, an upload, a page; 2 texts and a blank; 2 models; 2 threads in 1 or 2 processes; 3 jobs; 1 change, failure or cut removal | hashes tell the content, models are not mixed, the manifest is kept and its files spared, runs purge |
| `ingestion_wipe` | a configured file and an upload, 2 models, 1 thread, 2 jobs | section 6, point 1 |
| `scheduling_limit` | 1 trigger, 2 follow-ups, 1 slot, 1 per run, no reload | section 6, point 2 |
| `telegram_answer` | 1 serial conversation, 2 messages, 1 question | section 6, point 3 |

### Bounds, and why they are enough

Two trigger threads show every pair of positions in the handler; of the three one belongs to the dispatcher that shutdown
stops, and two to the one a reload starts, which nobody stops.  Two slots let both run at once and the third
be refused.  Two attempts are one retry.  A threshold of two gives the breaker a state
in which a failure counts without opening it.  Three threads of two processes race for the key
in all orders; four ids are a legacy row, a chain of three, and with `MaxRecords` 3 and
`Interval` 2 every kind of prune.  Two days make a record expire.  Two threads with two
attempts give back each other's reservations; three half-days and two timezones cross
midnight in both directions; a week is one day long, so that both resets happen.
Three processes make two resumes, of which the second meets rows of both earlier
processes; the fan-out has concurrent branches and a join.

Three calls fill a pause of two and another of one; two resumers overlap at every pair of
points, and after one fault the second finds what it left.  In `AlwaysOn` two births
are a daemon and its replacement, or a daemon and a stranger, on two pids, so that a pid is reused while
an older identity is recorded, and a daemon is launched beside the one-shot run of a dead manager; three generations are what `_gc_old_roles` keeps and one more.
A reader beside two managers meets every interleaving of a repair with a
start, and of a command with the purge that another left half done.  Two follow-ups of one run pass the limit together, fill a queue of one, and
overlap in raising the count; with one reload each is in a queue of its own, or the second is scheduled by the first.  Four messages are two
runs and two answers to one of them, or three runs and an answer, and a store of one evicts with
two keys.  Three ingest jobs are two that race and one that
comes after; the upset is spent on an edit, on a failure at any step, or on a removal cut short.  The page is the dashboard's alone: that a
run fetches the pages of its role is in the model and in the proofs, but not in this instance, which with such a page is twice as
large.

Every bound is in a guard: `MaxNow`, `MaxId`, `MaxClock`, `MaxRuns`, `MaxLost`, `MaxPause`, `MaxFault`,
`MaxBirth`, `MaxGen`, `MaxReload`, `MaxJob`, `MaxUpset` and the finite sets of threads, tasks and
messages, each of which is used once.  `MaxConcurrent`, `MaxAttempts`, `Threshold`, `MaxPerRun`,
`MaxTotal`, `MaxClarify` and `MaxStored` are the program's own limits.

`SYMMETRY` is used over interchangeable threads, processes, messages, calls, pids, keys, texts and models in runs that
check no liveness.  Deadlock is checked where the system has no end of its own;
`DaemonRunner` has an explicit `Terminated` step.  `CHECK_DEADLOCK FALSE` is set for the flow,
whose last process ends for good, for `Scheduling`, whose process exits, and where a
bound stops the instance (`Approvals`, `AlwaysOn`, `Conversation`, `Ingestion`).

The type invariant of each module (`TypeOK`, `IngestionTypeOK`) is proved, but for `AuditChain`, whose
proof carries the types in its own invariant (`RowIds`, `Locals`).

### Fairness

`DaemonRunner` and `Scheduling` have liveness properties, and their runs check safety under the same fair specification.  In `DaemonRunner` a thread inside the
handler keeps running (`WF_vars(ThreadStep(t))`), because a model call is bounded by the
executor's timeout and the retry loop by its attempts; the main thread's waits all have time
limits (`WF_vars(MainStep)`); the clock goes on.  In `Scheduling` a timer elapses
(`WF_vars(Fire(t))`), a trigger comes to be admitted or refused (weak), and a run ends, if only when it has timed out
(`WF_vars(Finish(a))`): its calls go on in their own threads and do not hold it.  Nothing makes a trigger
fire, a signal arrive, a file change or an agent schedule, and no call is assumed to end.

## 4. The proofs

TLAPS proves the following from the named assumptions of the modules
(`BreakerAssumption`, `DaemonAssumption`, `AuditAssumption`, `BudgetAssumption`, `FlowAssumption`,
`ApprovalsAssumption`, `AlwaysOnAssumption`, `IdentityAssumption`, `StateAssumption`,
`RowAssumption`, `SchedulingAssumption`, `ConversationAssumption`, `IngestionAssumption`, `StoreAssumption`), which
say only that constants are of their kind and that a value for "none" is not one of the others, and from `UsageLimited`: there
is a most that one attempt can use, as the usage limits of a run say.  The number of threads,
processes, services, attempts and the limits are arbitrary.

* **DaemonRunnerProofs.**  `TypeOK /\ Counters` is inductive, where `Counters` is
  `SlotsConserved /\ InFlightExact`: a step moves at most one thread into or out of the set whose
  cardinality a counter holds, and lemmas on cardinalities say what that does.  Theorem
  `CountersAreExact`.  `ProbeSlotIsHeld` and `ClosedIsBelowThreshold` are inductive
  relative to the types, after lemmas about the breaker's functions.  `DrainCoversTheSignal`
  needs the strengthening `DrainInv`: while draining, what was in flight at the signal is
  still counted or has left; the count at 0 then means that it has left.
* **AuditChainProofs.**  `ChainInv` adds to the linked table what the next insert needs: ids
  are unique and below the counter, a thread past the load of the key has the file's
  key, and the one thread inside the transaction has read what is still the tip.  Deleting
  rows keeps a linked table linked (`DeletingKeeps`), because the link is demanded between
  consecutive ids only.  Theorems `ChainAlwaysVerifies` and `KeysAlwaysAgree`.
  That the chain does not fork (`ChainNeverForks`) needs `Ranked`: some set of hashes that holds those of the table has a rank, one more than
  that of the predecessor, which goes up with the ids; two rows on the same predecessor would have the same rank.
  `VerifyLoops` shows by induction over the ids that the function of the loop exists, and `SeenNext` what it has
  said after each id, so that `VerifyDecides` holds for any keyed table and not only for a reachable one: the verifier accepts it exactly when
  `ChainOk` does.  Theorems `VerifyAlwaysAgrees` and `DamageIsReported`: a modified row is found because a hash tells
  what it is made from, a removed one because of the rank of its successor.
* **TokenBudgetProofs.**  `Books` is the types, the two conservation laws, and `AttemptLeft`,
  which says that a thread past the check has an attempt.  Theorems `TotalIsConserved`, `DayIsConserved`,
  `BudgetTypeCorrect`.  `OvershootIsBounded` needs the sum, over all threads, of the attempts they have left, which is the cardinality of
  a set of pairs; `SpendWithin` says that a counter and what the runs in flight may still use are together
  within the budget and `Slack`, and that every snapshot and the saved row are so by themselves, for after a
  restart no run is in flight and the row is the tracker.
* **DurableProofs, the flow.**  `FlowInv` adds to the properties `Started` (what has arrived has everything upstream
  behind it) and `SentIsKept` (what a kept service sent in this process is what the
  journal has of it), which is what makes a row consistent with the rows upstream when it is
  written.  Theorems `FlowTypeCorrect`, `WorkIsNotRepeated`, `JournalIsConsistent`, `FinishedWorkIsKept`
  (an action property, with the results, a pause among them, for which the code prunes), and `FlowKeepsItsPromise`: every initial state and step maps to one
  of `FlowPromise` or to a stutter.
* **DurableProofs, the ingestion.**  `Sound` says what each job knows at each of its commits: its copy of the
  model, hash and text is there when it is used (`AllShaped`); what it read is on disk, or the change was seen (`ReadIsThere`);
  a source that nobody else writes has, in mid-replacement, no chunks or exactly those of this job (`HalfWritten`); what a store
  holds that does not open is from a removal cut short (`ClosedIsBare`), which without faults there was none of (`TornByFault`); the manifest is what was registered, of files only, and a run has resolved all of it (`ManifestSound`); one ingest at a time but of two
  processes (`OneAtATime`); how far a run's purge has come (`PurgeSound`); and every chunk is of the model the store names,
  which is that of every ingest past the check (`ModelSound`).  For every action a lemma says what it leaves of the job and the store
  (`...Effect`), for every commit what it leaves of the contents (`...Contents`), and each part of `Sound` is shown from these.
  Theorems `IngestionTypeCorrect`, `HashAlwaysTells`, `ModelsNeverMix`, `ManagedAlwaysKept`, `RunAlwaysPurges`.
* **ApprovalsProofs.**  None of the properties is inductive: that a call runs once
  depends on where its row, its pause and every resumer are.  `Sound` says so in ten named
  parts: pauses share no calls (`Batches`), a resumer at work holds decisions of its pause (`Works`), a row belongs to
  the pause of its call (`Rows`), an answered pause has all its rows (`Done`), a call of an answered pause is resolved,
  being resolved, or torn (`Answered`), two resumers hold the same call only if it
  overlaps (`Apart`), one that is loaded after the pause was answered overlaps too (`Late`), what is denied was not executed (`Denied`),
  what was not answered was not executed (`ExecutedOnce`), and a call without a row is in a resumer's hand or unsaved
  (`Filed`).  One lemma per kind of step (quiet, answer, resolve, persist, torn) shows that all
  ten are kept.  Theorems `DecisionsAreHonoured`, `NothingIsForgotten`, `ShownBeforeTheyAreExecuted`, and `DecisionsStand`,
  an action property.
* **AlwaysOnProofs.**  `Sound` says what the holder of the lock knows at each point of its command: its copy of
  the state is the file's but for stale repairs, what it has seen dead stays dead, because births are
  never reused, and while it stops, ticks or launches no other kept daemon is alive; and that every
  identity in a copy of the state, the readers' included, is that of a daemon.  A one-shot run whose manager has died is older
  than every daemon beside it (`OrphansOlder`): when it began none was kept, and those that came since were born after.  Theorems `DaemonsAreAccounted`,
  `ServiceHasOneDaemon`, `ForcedRunIsAlone`, `StrangersAreNotSignalled`, `RoleIsPresent`.
* **SchedulingProofs.**  `Fates` says for each state of a task's thread where the task can be, and that a task in
  a queue was scheduled in that one.  `LimitsHold` follows from `Limits`: each queue is within its bound,
  and a count, like every value a call has read to raise it, is at most the number of calls that have raised it (`Counted`) since raises are
  lost but never invented; those calls have scheduled before.  Theorems `FollowUpsAreAccounted`, `NothingIsLeftArmed`, `LimitsAreKept`.
* **ConversationProofs.**  Which runs wait, what is open and who has been answered, for both kinds of conversation;
  lemmas on the sequence the store keeps its keys in.  Theorems `QuestionsAreTheWaitingRuns`, `AnswersAreRead`,
  and `StoredTurnsAreKept`, an action property.

### Only model-checked

Liveness under fairness (`ShutdownTerminates`, `ProbeSlotFreed`, `FollowUpSettles`), which is out of the prover's reach, and
the three properties of section 6 that TLC finds violated.  Every other property of the runs is stated by a theorem.  The
library's induction theorems take an operator, which no installed prover can instantiate; where a proof needs induction, over the ids of
`verify_chain` and the ranks of its hashes, it goes by the least counterexample, from the
well-foundedness of the naturals.

## 5. Mutants

Each property of a passing run has a mutant: a plausible bug written beside the
definition it replaces (`Mutant of ...`), under which TLC finds that property violated.
Examples: the drain does not wait (`DrainedAtOnce`), the transaction reads the tip before
it has the write lock (`BeginDeferred`), a reservation is given back without having one
(`GiveBackAlways`), the join waits for one branch (`ReadyAfterAny`), a resume does not look
into the journal (`BeginWithoutLookup`), the rows of an answered pause are left as they were (`CompleteUnresolved`), a start loads
the state without the lock (`EnterUnlocked`), a live pid is taken for the daemon (`MatchesPidOnly`), a stop believes its deadline
(`GoneAtDeadline`), the managed sources are not merged (`ResolvedByRole`), a reload takes the pending tasks with it (`Carried`), shutdown cancels
nothing (`CancelNothing`), a question that timed out stays open (`PoppedIfAnswered`), a run stores its own turn only (`OwnTurn`).

## 6. Disagreements between the code and what it says

Reproduced by a run:

1. `ingestion_wipe`: `docs/core/ingestion.md:469` says that the manifest is written back to the fresh store after
   a forced wipe.  The store is created without dimensions, which it refuses when it is opened next: the
   ingest fails, the manifest is lost, and every later ingest fails the same way (`ingestion/pipeline.py:652`).
2. `scheduling_limit`: `docs/orchestration/autonomy.md:61` calls `max_scheduled_per_run` what an agent may schedule in a
   single execution.  The daemon gives one toolset to all runs and nothing resets its count, so that
   after as many follow-ups none is scheduled until a reload (`agent/tools/scheduling.py:27`).
3. `telegram_answer`: `docs/agents/tools.md:1127` says of Telegram and Discord that the next inbound message on the same
   conversation is consumed as the answer.  On Telegram the handler awaits the run, which waits for the answer, and the library takes
   no other update before the handler has returned (`triggers/telegram.py:112`): the question times out and the message starts a run.

In these a passing property says what the code does where a document says otherwise; its comment names the document, and `PROJECT.json` has the finding:

* `JournalKept`: `docs/orchestration/durability.md:106-111` says that a run which finishes with a failed or approval-paused
  sub-agent leaves its checkpoints.  A paused result has `success` set (`flow/graph.py:1346`), so the
  flow prunes them (`flow/orchestrator.py:373`).  The property lists the results that lead to a prune, and TLC and the
  proof show that no other does; with `paused` taken out of the list TLC finds it violated.
* `LimitsHold`, the total: `docs/orchestration/autonomy.md:62` (and 207, 236) bounds the pending tasks across the daemon's lifetime.  The bound
  is each queue's own, and a reload leaves the timers of the old queue armed (`runner/daemon.py:218`).
* `LimitsHold`, per run: by `autonomy.md:61` it is a maximum.  The calls of one run go on in parallel and pass the check together, and the
  unlocked `+=` may lose a raise (`agent/tools/scheduling.py:29`, 39, 52, 87), so that the code has no upper bound to state but the queue's; what holds is that no
  call is refused before as many have been scheduled.
* `ManagedKept`: `docs/interfaces/dashboard.md:129` and `docs/core/ingestion.md:443` have a URL of the dashboard registered as a managed source.  The URL is
  compared with `str(Path(url))`, which reads `https:/...` (`ingestion/pipeline.py:999`, 582), so none ever is, and no run refreshes it;
  `tests/test_pipeline_managed.py:165` puts a mock in the place of the `Path`.
* `RunPurges`: `docs/core/ingestion.md:313` says that files which no longer match are purged by the next run.  A run that had files to
  read and got nothing from any of them purges nothing (`ingestion/pipeline.py:706`); the property excepts it by the field `barren`.

Others are no contradiction of a document, or a smaller one.  The models have the behaviour, and the properties are stated so that they allow for it:

* Daemon: the breaker may admit a second probe, since any finished trigger releases the flag of whichever
  probe holds it (`runner/circuit_breaker.py:129`); a run that starts during or after the drain is killed at exit
  although the grace period has not passed (`runner/daemon.py:202`); after a reload that restarted the dispatcher, shutdown
  stops the old one only (`runner/daemon.py:183`); of two budget snapshots the older may be saved last, and
  spend is lost at the next restart (`runner/daemon.py:371`); a run that raises
  keeps its reservation (`runner/daemon.py:353`), and a later record, possibly of a later day, gives it back in its place
  (`runner/budget.py:240`); OPEN to HALF_OPEN is never audited
  (`circuit_breaker.py:139` against `guardrails.md:109`); a late success of a run admitted while CLOSED closes a HALF_OPEN
  breaker (`circuit_breaker.py:91`); `display.py:200` says that budgets are reset on a restart,
  which `daemon.py:136` contradicts.
* Audit: retention by time alone can delete the tail of the chain, which verification cannot see
  (`audit/logger.py:1723`).
* Flow: a resume re-runs the service that failed but replays what ran after it on its empty output
  (`flow/graph.py:786`); a successful resume never prunes its rows (`flow/orchestrator.py:373`, against `durability.md:68`); a failed entry
  service is re-run on the resume's prompt, empty by default, although its row has the original
  (`flow/orchestrator.py:442`).
* Approvals: two resumes of one run are not kept apart (`services/execution.py:284`), and a process that dies after the
  calls and before the resolutions leaves them open to be approved again (`:302`).
* Always-on: `_heal_state` writes without the lock, so that a `status` beside a `start` may overwrite the record of the
  new daemon, and the next start adds a second (`services/always_on.py:907`); the one-shot run of a manager that was killed goes on
  without the lock, and the next start puts a daemon beside it (`:1283`); a purge that stops midway may leave a state file
  that names a role already removed (`:1119`), which a start then refuses.
* Ingestion: a wipe that stops midway may leave hashes without chunks, and the next ingest skips those files as unchanged
  (`stores/lance_document_store.py:65`); the hash stored is taken after the text was read (`ingestion/pipeline.py:540`); the manifest is read and
  written back without a lock (`ingestion/manifest.py:72`); a managed file that is
  uploaded again after a run found its file missing is purged by that run (`ingestion/pipeline.py:939`).

Read off the code and not modelled: a rotated key does not reach a running process (`audit/logger.py:804` against
`audit-chain.md:61-77`); nothing keeps two processes off one `flow_run_id` (`flow/orchestrator.py:423`); a resume starts from an empty
blackboard, so that a join misses the entries of replayed services (`flow/graph.py:1269`); the flow daemon drops a
trigger when its ingress queue of 32 has been full for five seconds (`flow/graph.py:1382`).

## 7. Not modelled in the modelled parts

* Daemon: autonomous runs.  The clarification fast path and the conversations are in `Conversation`, the schedule queue in
  `Scheduling`, each over an abstract admission, because the three meet only in `_on_trigger`, whose own steps
  `DaemonRunner` has in full.  A trigger's stop waits at most ten seconds; the model lets it give up at any time.
* Breaker: the one-bytecode window between the test and the call of `_circuit_breaker` in a reload
  to no breaker.
* Audit: the key from the environment, key rotation, the chains of the other tables.
* Budgets: `update_limits` of the limits themselves, pricing, warnings.
* Flow: routing by keyword or model, ensembles, the blackboard, the ingress queue of the flow daemon,
  two processes at work on one `flow_run_id`.  `loop_back` is refused together with durability.
* Approvals: the role file a row names, which may have changed or gone by the time of the resume, and the approvals the
  interactive runner answers in place, which have no rows.
* Always-on: the catalog, parameters, schedules and sinks of a service, which decide only whether a start is refused; the rendering
  of the role; logs.
* Scheduling: delays, which decide only when a timer fires.  The `+=` is two steps, so that a raise may be lost; builds of Python whose
  interpreter lock makes that unlikely have fewer behaviours, not others.
* Conversation: the prompt of the command line, and the server's own store and rate limiter, which are small classes under one lock.
* Ingestion: other jobs see the removal of a store as one step, whole or cut short, and a cut leaves or takes each table: a
  table of which some files are gone cannot be opened, and every job that needs it ends with an error.  Size limits, the URL that auto mode does not fetch, globs, chunking, the scraper tool's writes, and embedding models of
  another dimension, which the store refuses by itself, are left out.

Of the rest of the program most cannot be modelled to any use: its lines are for the most part user interface (CLI, wizards,
dashboard), adapters of external services (chat, MCP, A2A, telemetry, registries), file generation and schema classes, with
no state that outlives a call and no order of steps to get wrong.  `PROJECT.json` gives the reason part by part.

## 8. Plan

Done: `CircuitBreaker`, `DaemonRunner`, `AuditChain`, `AuditVerify`, `TokenBudget`, `FlowPromise`, `FlowResume`,
`Approvals`, `AlwaysOn`, `Scheduling`, `Conversation`, `Ingestion`, with their proofs.  Left, in the order of importance:

1. `FlowDaemon`: the ingress queue with its drops and the tasks left at shutdown; the blackboard and routing in `FlowResume`.
2. The spawn pool and the autonomous loop: completion against cancellation, and several budgets whichever first.
3. `topological_tiers` as a pure function against a reference definition.
