---------------------------- MODULE FlowResume ----------------------------
(***************************************************************************)
(* A durable flow: flow/graph.py runs the services of a flow as an acyclic *)
(* graph, flow/checkpoint.py journals each of them that ran, and a process *)
(* that dies, times out or ends with a failure is followed by another that *)
(* resumes the same flow_run_id and replays what the journal has.          *)
(*                                                                         *)
(* One process runs the flow at a time.  A run of an agent and the write   *)
(* of its checkpoint are one action: no await separates them, and a crash  *)
(* between them leaves the same state as one before.  What an agent says   *)
(* is the number of the process in which it said it; 0 is no output.       *)
(***************************************************************************)
EXTENDS Integers, FiniteSets

CONSTANTS
  Service,
  Pred,      \* the services that delegate to a service; several are joined
  Denied,    \* services the delegation policy or the depth check keeps out
  Outcome,   \* how a run of an agent may end
  MaxRuns,   \* bound: processes that start or resume the flow
  MaxLost,   \* bound: checkpoint writes that fail
  NoRow      \* no row in flow_checkpoints

ASSUME FlowAssumption ==
  /\ Pred \in [Service -> SUBSET Service]
  /\ Denied \subseteq Service
  /\ Outcome \subseteq {"ok", "paused", "failed"}
  /\ MaxRuns \in Nat /\ MaxLost \in Nat

Status == {"waiting", "executing", "ran", "replayed", "skipped"}
Emitted == {"ran", "replayed", "skipped"}
Output == 0 .. MaxRuns
Row == [res : Outcome, out : Output, used : [Service -> Output]]

ASSUME RowAssumption == NoRow \notin Row

VARIABLES
  run,      \* processes started so far; the first is the original run
  running,  \* one of them is at work
  status,   \* where each service of it is
  sent,     \* what each service sent downstream
  last,     \* last_result of each service
  journal,  \* flow_checkpoints, the rows of this flow_run_id
  lost,     \* checkpoint writes that failed
  unsaved,  \* history: services of which a run was not kept for replay
  pruned    \* history: the journal was pruned

process == <<status, sent, last>>
vars == <<run, running, process, journal, lost, unsaved, pruned>>

TypeOK ==
  /\ run \in Output
  /\ running \in BOOLEAN
  /\ status \in [Service -> Status]
  /\ sent \in [Service -> Output]
  /\ last \in [Service -> Outcome \cup {"none"}]
  /\ journal \in [Service -> Row \cup {NoRow}]
  /\ lost \in 0 .. MaxLost
  /\ unsaved \subseteq Service
  /\ pruned \in BOOLEAN

(***************************************************************************)
(* The journal.                                                            *)
(***************************************************************************)
(* Mutant: any row is replayed, a failed one too. *)
AnyRowReplayable(s) == journal[s] # NoRow

Replayable(s) == journal[s] # NoRow /\ journal[s].res = "ok"

EmptyJournal == [s \in Service |-> NoRow]

Kept == {s \in Service : Replayable(s)}

(***************************************************************************)
(* One process.                                                            *)
(***************************************************************************)
FreshMembers ==
  /\ status' = [s \in Service |-> "waiting"]
  /\ sent' = [s \in Service |-> 0]
  /\ last' = [s \in Service |-> "none"]

Init ==
  /\ run = 0 /\ running = FALSE
  /\ status = [s \in Service |-> "waiting"]
  /\ sent = [s \in Service |-> 0]
  /\ last = [s \in Service |-> "none"]
  /\ journal = EmptyJournal
  /\ lost = 0 /\ unsaved = {} /\ pruned = FALSE

(* run_once, the first time, and resume, every time after it. *)
Launch ==
  /\ ~running /\ run < MaxRuns
  /\ run' = run + 1
  /\ running' = TRUE
  /\ UNCHANGED <<process, journal, lost, unsaved, pruned>>

(* Mutant: the join waits for one of the services only. *)
ReadyAfterAny(s) == Pred[s] = {} \/ \E p \in Pred[s] : status[p] \in Emitted

(* The graph reaches a service when every service that delegates to it has *)
(* sent something, be it nothing.                                          *)
Ready(s) == \A p \in Pred[s] : status[p] \in Emitted

Arrives(s) == running /\ status[s] = "waiting" /\ Ready(s)

Replay(s) ==
  /\ Arrives(s) /\ Replayable(s)
  /\ status' = [status EXCEPT ![s] = "replayed"]
  /\ sent' = [sent EXCEPT ![s] = journal[s].out]
  /\ last' = [last EXCEPT ![s] = journal[s].res]
  /\ UNCHANGED <<run, running, journal, lost, unsaved, pruned>>

(* Denied by the policy or the depth check: an empty envelope, no row. *)
Skip(s) ==
  /\ Arrives(s) /\ ~Replayable(s) /\ s \in Denied
  /\ status' = [status EXCEPT ![s] = "skipped"]
  /\ unsaved' = unsaved \cup {s}
  /\ UNCHANGED <<run, running, sent, last, journal, lost, pruned>>

(* Mutant: a resume does not look into the journal. *)
BeginWithoutLookup(s) ==
  /\ Arrives(s) /\ s \notin Denied
  /\ status' = [status EXCEPT ![s] = "executing"]
  /\ UNCHANGED <<run, running, sent, last, journal, lost, unsaved, pruned>>

Begin(s) ==
  /\ Arrives(s) /\ ~Replayable(s) /\ s \notin Denied
  /\ status' = [status EXCEPT ![s] = "executing"]
  /\ UNCHANGED <<run, running, sent, last, journal, lost, unsaved, pruned>>

(* Only a run that succeeded and was not paused has an output. *)
OutputOf(res) == IF res = "ok" THEN run ELSE 0

RowOf(s, res) ==
  [res |-> res, out |-> OutputOf(res),
   used |-> [p \in Service |-> IF p \in Pred[s] THEN sent[p] ELSE 0]]

(* The row replaces the one an earlier process left; a write that fails is *)
(* logged and the flow goes on.                                            *)
Record(s, res) ==
  \/ /\ journal' = [journal EXCEPT ![s] = RowOf(s, res)]
     /\ unsaved' = IF res = "ok" THEN unsaved ELSE unsaved \cup {s}
     /\ UNCHANGED lost
  \/ /\ lost < MaxLost
     /\ lost' = lost + 1
     /\ unsaved' = unsaved \cup {s}
     /\ UNCHANGED journal

Complete(s, res) ==
  /\ running /\ status[s] = "executing"
  /\ status' = [status EXCEPT ![s] = "ran"]
  /\ sent' = [sent EXCEPT ![s] = OutputOf(res)]
  /\ last' = [last EXCEPT ![s] = res]
  /\ Record(s, res)
  /\ UNCHANGED <<run, running, pruned>>

(* The graph is through: the first process prunes its journal when it saw  *)
(* no failure, a resume never does.  The result of a paused run has success *)
(* set, and that of a service that was skipped does not exist.             *)
Succeeded == \A s \in Service : last[s] # "failed"

(* Mutant: pruned whenever the graph returns. *)
PrunesAlways == run = 1

Prunes == Succeeded /\ run = 1

Finish ==
  /\ running
  /\ \A s \in Service : status[s] \in Emitted
  /\ running' = FALSE
  /\ journal' = IF Prunes THEN EmptyJournal ELSE journal
  /\ pruned' = (pruned \/ Prunes)
  /\ FreshMembers
  /\ UNCHANGED <<run, lost, unsaved>>

(* The process dies, the graph raises, or timeout_seconds pass and what    *)
(* runs is cancelled.                                                      *)
Interrupt ==
  /\ running
  /\ running' = FALSE
  /\ FreshMembers
  /\ UNCHANGED <<run, journal, lost, unsaved, pruned>>

Next ==
  \/ Launch \/ Finish \/ Interrupt
  \/ \E s \in Service :
       \/ Replay(s) \/ Skip(s) \/ Begin(s)
       \/ \E res \in Outcome : Complete(s, res)

Spec == Init /\ [][Next]_vars

(***************************************************************************)
(* Properties.                                                             *)
(***************************************************************************)

(* An agent is never at work while the journal has its finished work: its  *)
(* model calls are not paid for twice, and its side effects not repeated.  *)
NeverRunTwice == \A s \in Service : status[s] = "executing" => ~Replayable(s)

(* The journal is one consistent history: what is kept of a service was    *)
(* made from what is kept of each service upstream, unless a run of that   *)
(* one was not kept (failed, paused, skipped, or its write failed).        *)
JournalConsistent ==
  \A s \in Kept : \A p \in Pred[s] \ unsaved :
    Replayable(p) /\ journal[s].used[p] = journal[p].out

(* Rows are given up only by the first process of a flow, when it took     *)
(* every service to its end and saw none of them fail: an interrupted, a   *)
(* failing and a resuming process leave them all.  A service that paused   *)
(* for an approval does not hold the others' rows, or its own: its result  *)
(* counts as a success (run_succeeded of flow/graph.py), where             *)
(* docs/orchestration/durability.md says that its flow leaves its          *)
(* checkpoints.                                                            *)
JournalKept ==
  [][(\E s \in Service : journal[s] # NoRow /\ journal'[s] = NoRow)
       => run = 1 /\ \A s \in Service :
            status[s] \in Emitted /\ last[s] \in {"ok", "paused", "none"}]_vars

(* All its processes together keep what FlowPromise says. *)
Promise == INSTANCE FlowPromise WITH
  done <- IF pruned THEN Service ELSE Kept,
  excused <- IF pruned THEN Service ELSE unsaved

Promised == Promise!Spec

=============================================================================
