--------------------------- MODULE DurableProofs ---------------------------
(***************************************************************************)
(* What stays on disk when work is cut short: the journal of a durable flow*)
(* (FlowResume) and the document store of an ingestion (Ingestion).  The   *)
(* two share nothing but this module; the names of one do not occur in the *)
(* other.                                                                  *)
(***************************************************************************)
EXTENDS FlowResume, Ingestion, TLAPS

(***************************************************************************)
(* FlowResume.  What a durable flow keeps over crashes, timeouts, failures *)
(* and resumes, for any graph of services and any number of processes.     *)
(* FlowInv is the inductive invariant: besides the properties it says what *)
(* a service has seen (all upstream sent something) and that what a kept   *)
(* service sent in this process is what the journal has of it.             *)
(***************************************************************************)


Started ==
  \A s \in Service : status[s] # "waiting" => \A p \in Pred[s] : status[p] \in Emitted

SentIsKept ==
  \A s \in Service : status[s] \in Emitted /\ s \notin unsaved =>
    Replayable(s) /\ sent[s] = journal[s].out

FlowInv == TypeOK /\ NeverRunTwice /\ Started /\ SentIsKept /\ JournalConsistent

(* What a service sends and the row that is written of it are well typed. *)
LEMMA RowsAreTyped ==
  ASSUME TypeOK, NEW s \in Service, NEW res \in Outcome
  PROVE  /\ OutputOf(res) \in Output
         /\ RowOf(s, res) \in Row
<1>1. run \in Output /\ 0 \in Output
  BY FlowAssumption DEF TypeOK, Output
<1>2. OutputOf(res) \in Output
  BY <1>1 DEF OutputOf
<1>3. [p \in Service |-> IF p \in Pred[s] THEN sent[p] ELSE 0] \in [Service -> Output]
  BY <1>1 DEF TypeOK
<1>. QED BY <1>2, <1>3 DEF RowOf, Row

LEMMA InitHolds == Init => FlowInv
<1>. SUFFICES ASSUME Init PROVE FlowInv
  OBVIOUS
<1>a. 0 \in 0 .. MaxRuns /\ 0 \in 0 .. MaxLost
  BY FlowAssumption
<1>b. journal \in [Service -> Row \cup {NoRow}]
  BY DEF Init, EmptyJournal
<1>1. TypeOK
  BY <1>a, <1>b DEF Init, TypeOK, Output, Status
<1>2. \A s \in Service : status[s] = "waiting" /\ journal[s] = NoRow
  BY DEF Init, EmptyJournal
<1>. QED
  BY <1>1, <1>2 DEF FlowInv, NeverRunTwice, Started, SentIsKept, JournalConsistent,
    Replayable, Kept, Emitted

(* A process that ends leaves no service at work. *)
LEMMA FreshHolds ==
  ASSUME FlowInv, FreshMembers, JournalConsistent', TypeOK'
  PROVE  FlowInv'
<1>1. \A s \in Service : status'[s] = "waiting"
  BY DEF FreshMembers
<1>. QED
  BY <1>1 DEF FlowInv, NeverRunTwice, Started, SentIsKept, Emitted

LEMMA LaunchKeeps == FlowInv /\ Launch => FlowInv'
<1>. SUFFICES ASSUME FlowInv, Launch PROVE FlowInv'
  OBVIOUS
<1>1. TypeOK'
  BY FlowAssumption DEF FlowInv, Launch, process, TypeOK, Output
<1>. QED
  BY <1>1 DEF FlowInv, Launch, process, NeverRunTwice, Started, SentIsKept,
    JournalConsistent, Kept, Replayable

LEMMA ReplayKeeps == ASSUME NEW s \in Service PROVE FlowInv /\ Replay(s) => FlowInv'
<1>. SUFFICES ASSUME FlowInv, Replay(s) PROVE FlowInv'
  OBVIOUS
<1>. USE DEF FlowInv
<1>1. journal[s] \in Row /\ journal[s].out \in Output /\ journal[s].res \in Outcome
  BY DEF TypeOK, Replay, Replayable, Row
<1>2. TypeOK'
  BY <1>1 DEF Replay, TypeOK, Status
<1>3. NeverRunTwice'
  BY DEF Replay, TypeOK, NeverRunTwice, Replayable
<1>4. Started'
  BY DEF Replay, Arrives, Ready, Started, TypeOK, Emitted
<1>5. SentIsKept'
  BY DEF Replay, SentIsKept, TypeOK, Emitted, Replayable
<1>6. JournalConsistent'
  BY DEF Replay, JournalConsistent, Kept, Replayable
<1>. QED BY <1>2, <1>3, <1>4, <1>5, <1>6

LEMMA SkipKeeps == ASSUME NEW s \in Service PROVE FlowInv /\ Skip(s) => FlowInv'
<1>. SUFFICES ASSUME FlowInv, Skip(s) PROVE FlowInv'
  OBVIOUS
<1>. USE DEF FlowInv
<1>1. TypeOK'
  BY DEF Skip, TypeOK, Status
<1>2. NeverRunTwice'
  BY DEF Skip, TypeOK, NeverRunTwice, Replayable
<1>3. Started'
  BY DEF Skip, Arrives, Ready, Started, TypeOK, Emitted
<1>4. SentIsKept'
  BY DEF Skip, SentIsKept, TypeOK, Emitted, Replayable
<1>5. JournalConsistent'
  BY DEF Skip, JournalConsistent, Kept, Replayable
<1>. QED BY <1>1, <1>2, <1>3, <1>4, <1>5

LEMMA BeginKeeps == ASSUME NEW s \in Service PROVE FlowInv /\ Begin(s) => FlowInv'
<1>. SUFFICES ASSUME FlowInv, Begin(s) PROVE FlowInv'
  OBVIOUS
<1>. USE DEF FlowInv
<1>1. TypeOK'
  BY DEF Begin, TypeOK, Status
<1>2. NeverRunTwice'
  BY DEF Begin, TypeOK, NeverRunTwice, Replayable
<1>3. Started'
  BY DEF Begin, Arrives, Ready, Started, TypeOK, Emitted
<1>4. SentIsKept'
  BY DEF Begin, SentIsKept, TypeOK, Emitted, Replayable
<1>5. JournalConsistent'
  BY DEF Begin, JournalConsistent, Kept, Replayable
<1>. QED BY <1>1, <1>2, <1>3, <1>4, <1>5

LEMMA CompleteKeeps ==
  ASSUME NEW s \in Service, NEW res \in Outcome
  PROVE  FlowInv /\ Complete(s, res) => FlowInv'
<1>. SUFFICES ASSUME FlowInv, Complete(s, res) PROVE FlowInv'
  OBVIOUS
<1>. USE DEF FlowInv
<1>1. OutputOf(res) \in Output /\ RowOf(s, res) \in Row
  BY RowsAreTyped
<1>2. RowOf(s, res).res = res /\ RowOf(s, res).out = OutputOf(res)
  BY DEF RowOf
<1>3. \A p \in Pred[s] : RowOf(s, res).used[p] = sent[p]
  BY FlowAssumption DEF RowOf
<1>. HIDE DEF FlowInv
<1>4. /\ status' = [status EXCEPT ![s] = "ran"]
      /\ sent' = [sent EXCEPT ![s] = OutputOf(res)]
      /\ status[s] = "executing"
      /\ Record(s, res)
  BY DEF Complete
<1>5. FlowInv
  OBVIOUS
<1>6. \A t \in Service : t # s => journal'[t] = journal[t]
  BY <1>4, <1>5 DEF Record, FlowInv, TypeOK
<1>7. unsaved \subseteq unsaved' /\ unsaved' \subseteq Service
  BY <1>4, <1>5 DEF Record, FlowInv, TypeOK
<1>8. s \notin unsaved' =>
        /\ res = "ok" /\ journal'[s] = RowOf(s, res)
  BY <1>4, <1>5 DEF Record, FlowInv, TypeOK
<1>9. /\ journal'[s] \in {journal[s], RowOf(s, res)}
      /\ journal' \in [Service -> Row \cup {NoRow}]
      /\ lost' \in 0 .. MaxLost
  <2>1. CASE journal' = [journal EXCEPT ![s] = RowOf(s, res)] /\ UNCHANGED lost
    BY <1>1, <1>5, <2>1 DEF FlowInv, TypeOK
  <2>2. CASE lost < MaxLost /\ lost' = lost + 1 /\ UNCHANGED journal
    BY <1>5, <2>2, FlowAssumption DEF FlowInv, TypeOK
  <2>. QED BY <1>4, <2>1, <2>2 DEF Record
<1>10. TypeOK'
  BY <1>1, <1>5, <1>7, <1>9 DEF Complete, FlowInv, TypeOK, Status
<1>11. NeverRunTwice'
  BY <1>4, <1>5, <1>6 DEF FlowInv, TypeOK, NeverRunTwice, Replayable
<1>12. Started'
  BY <1>4, <1>5 DEF FlowInv, TypeOK, Started, Emitted
<1>13. SentIsKept'
  BY <1>1, <1>2, <1>4, <1>5, <1>6, <1>7, <1>8, RowAssumption
  DEF FlowInv, TypeOK, SentIsKept, Emitted, Replayable
(* What s was made from is what the journal has of the services upstream.  *)
<1>14. ASSUME NEW t \in Service, Replayable(t)', NEW p \in Pred[t], p \notin unsaved'
       PROVE  Replayable(p)' /\ journal'[t].used[p] = journal'[p].out
  <2>. p \in Service /\ p \notin unsaved
    BY <1>7, <1>14, FlowAssumption
  <2>1. CASE t # s /\ p # s
    BY <1>5, <1>6, <1>14, <2>1 DEF FlowInv, JournalConsistent, Kept, Replayable
  <2>2. CASE t # s /\ p = s
    <3>1. Replayable(t)
      BY <1>6, <1>14, <2>2 DEF Replayable
    <3>2. Replayable(s)
      BY <1>5, <2>2, <3>1 DEF FlowInv, JournalConsistent, Kept
    <3>. QED BY <1>4, <1>5, <3>2 DEF FlowInv, NeverRunTwice
  <2>3. CASE t = s
    <3>1. status[p] \in Emitted
      BY <1>4, <1>5, <1>14, <2>3 DEF FlowInv, Started
    <3>2. p # s
      BY <1>4, <3>1 DEF Emitted
    <3>3. Replayable(p) /\ sent[p] = journal[p].out
      BY <1>5, <3>1 DEF FlowInv, SentIsKept
    <3>4. ~Replayable(s)
      BY <1>4, <1>5 DEF FlowInv, NeverRunTwice
    <3>5. journal'[s] = RowOf(s, res)
      BY <1>9, <1>14, <2>3, <3>4 DEF Replayable
    <3>. QED BY <1>3, <1>6, <1>14, <2>3, <3>2, <3>3, <3>5 DEF Replayable
  <2>. QED BY <2>1, <2>2, <2>3
<1>15. JournalConsistent'
  BY <1>14 DEF JournalConsistent, Kept
<1>. QED BY <1>10, <1>11, <1>12, <1>13, <1>15 DEF FlowInv

LEMMA FreshIsTyped ==
  ASSUME FreshMembers
  PROVE  /\ status' \in [Service -> Status]
         /\ sent' \in [Service -> Output]
         /\ last' \in [Service -> Outcome \cup {"none"}]
<1>1. 0 \in Output
  BY FlowAssumption DEF Output
<1>. QED BY <1>1 DEF FreshMembers, Status

LEMMA FinishKeeps == FlowInv /\ Finish => FlowInv'
<1>. SUFFICES ASSUME FlowInv, Finish PROVE FlowInv'
  OBVIOUS
<1>1. FreshMembers
  BY DEF Finish
<1>2. EmptyJournal \in [Service -> Row \cup {NoRow}]
  BY DEF EmptyJournal
<1>3. TypeOK'
  BY <1>1, <1>2, FreshIsTyped DEF Finish, FlowInv, TypeOK
<1>4. JournalConsistent'
  <2>1. CASE Prunes
    BY <2>1 DEF Finish, EmptyJournal, JournalConsistent, Kept, Replayable
  <2>2. CASE ~Prunes
    BY <2>2 DEF Finish, FlowInv, JournalConsistent, Kept, Replayable
  <2>. QED BY <2>1, <2>2
<1>. QED BY <1>1, <1>3, <1>4, FreshHolds

LEMMA InterruptKeeps == FlowInv /\ Interrupt => FlowInv'
<1>. SUFFICES ASSUME FlowInv, Interrupt PROVE FlowInv'
  OBVIOUS
<1>1. FreshMembers
  BY DEF Interrupt
<1>2. TypeOK'
  BY <1>1, FreshIsTyped DEF Interrupt, FlowInv, TypeOK
<1>3. JournalConsistent'
  BY DEF Interrupt, FlowInv, JournalConsistent, Kept, Replayable
<1>. QED BY <1>1, <1>2, <1>3, FreshHolds

LEMMA StutterKeeps == FlowInv /\ UNCHANGED vars => FlowInv'
BY DEF vars, process, FlowInv, TypeOK, NeverRunTwice, Started, SentIsKept,
  JournalConsistent, Kept, Replayable

LEMMA FlowInvHolds == Spec => []FlowInv
<1>1. Init => FlowInv
  BY InitHolds
<1>2. FlowInv /\ [Next]_vars => FlowInv'
  BY LaunchKeeps, FinishKeeps, InterruptKeeps, ReplayKeeps, SkipKeeps, BeginKeeps,
    CompleteKeeps, StutterKeeps DEF Next
<1>. QED BY <1>1, <1>2, PTL DEF Spec

(* Every reachable state is well typed.                                    *)
THEOREM FlowTypeCorrect == Spec => []TypeOK
<1>1. FlowInv => TypeOK
  BY DEF FlowInv
<1>. QED BY <1>1, FlowInvHolds, PTL

(* No agent is at work while get_replay would return its finished work.    *)
THEOREM WorkIsNotRepeated == Spec => []NeverRunTwice
<1>1. FlowInv => NeverRunTwice
  BY DEF FlowInv
<1>. QED BY <1>1, FlowInvHolds, PTL

(* The rows of the journal fit together, but for the services of which a   *)
(* run was not kept.                                                       *)
THEOREM JournalIsConsistent == Spec => []JournalConsistent
<1>1. FlowInv => JournalConsistent
  BY DEF FlowInv
<1>. QED BY <1>1, FlowInvHolds, PTL

(* A row disappears only when a flow with no failure is pruned.            *)
THEOREM FinishedWorkIsKept == Spec => JournalKept
<1>1. ASSUME FlowInv, [Next]_vars, NEW s \in Service, journal[s] # NoRow, journal'[s] = NoRow
      PROVE  run = 1 /\ \A t \in Service : status[t] \in Emitted /\ last[t] \in {"ok", "paused", "none"}
  <2>1. CASE Finish
    <3>1. \A t \in Service : last[t] \in {"ok", "paused", "failed", "none"}
      BY <1>1, FlowAssumption DEF FlowInv, TypeOK
    <3>. QED BY <1>1, <2>1, <3>1 DEF Finish, Prunes, Succeeded
  <2>2. ASSUME NEW t \in Service, NEW res \in Outcome, Complete(t, res)
        PROVE  FALSE
    <3>1. RowOf(t, res) # NoRow
      BY <1>1, RowsAreTyped, RowAssumption DEF FlowInv
    <3>2. journal' \in {journal, [journal EXCEPT ![t] = RowOf(t, res)]}
      BY <2>2 DEF Complete, Record
    <3>. QED BY <1>1, <3>1, <3>2 DEF FlowInv, TypeOK
  <2>3. CASE UNCHANGED journal
    BY <1>1, <2>3
  <2>. QED
    BY <1>1, <2>1, <2>2, <2>3 DEF Next, vars, Launch, Interrupt, Replay, Skip, Begin
<1>2. FlowInv /\ [Next]_vars =>
        [(\E s \in Service : journal[s] # NoRow /\ journal'[s] = NoRow)
           => run = 1 /\ \A s \in Service :
                status[s] \in Emitted /\ last[s] \in {"ok", "paused", "none"}]_vars
  BY <1>1
<1>. QED BY <1>2, FlowInvHolds, PTL DEF Spec, JournalKept

-----------------------------------------------------------------------------
(* The processes of a flow together implement FlowPromise.                 *)

doneBar == IF pruned THEN Service ELSE Kept
excusedBar == IF pruned THEN Service ELSE unsaved

LEMMA QuietStep ==
  ASSUME UNCHANGED <<journal, unsaved, pruned>>
  PROVE  UNCHANGED <<doneBar, excusedBar>>
BY DEF doneBar, excusedBar, Kept, Replayable

(* Nothing is executed before what is upstream of it is kept or excused.   *)
LEMMA UpstreamIsSettled ==
  ASSUME FlowInv, NEW s \in Service, status[s] # "waiting"
  PROVE  Pred[s] \subseteq Kept \cup unsaved
<1>. SUFFICES ASSUME NEW p \in Pred[s], p \notin unsaved PROVE p \in Kept
  OBVIOUS
<1>1. p \in Service
  BY FlowAssumption
<1>2. status[p] \in Emitted
  BY DEF FlowInv, Started
<1>. QED BY <1>1, <1>2 DEF FlowInv, SentIsKept, Kept

LEMMA CompleteImplements ==
  ASSUME FlowInv, NEW s \in Service, NEW res \in Outcome, Complete(s, res)
  PROVE  Promise!Next \/ UNCHANGED <<doneBar, excusedBar>>
<1>1. UNCHANGED pruned /\ status[s] = "executing" /\ Record(s, res)
  BY DEF Complete
<1>2. s \notin Kept /\ Pred[s] \subseteq Kept \cup unsaved
  BY <1>1, UpstreamIsSettled DEF FlowInv, NeverRunTwice, Kept
<1>3. RowOf(s, res) # NoRow /\ RowOf(s, res).res = res
  BY RowsAreTyped, RowAssumption DEF FlowInv, RowOf
<1>4. CASE pruned
  BY <1>1, <1>4 DEF doneBar, excusedBar
<1>5. CASE ~pruned /\ UNCHANGED journal
  <2>1. unsaved' = unsaved \cup {s} \/ (res = "ok" /\ unsaved' = unsaved)
    BY <1>1 DEF Record
  <2>2. Kept' = Kept
    BY <1>5 DEF Kept, Replayable
  <2>3. CASE unsaved' = unsaved \cup {s}
    <3>1. Promise!Excuse(s)
      BY <1>1, <1>5, <2>2, <2>3 DEF Promise!Excuse
    <3>. QED BY <3>1 DEF Promise!Next
  <2>4. CASE unsaved' = unsaved
    BY <1>1, <1>5, <2>2, <2>4 DEF doneBar, excusedBar
  <2>. QED BY <2>1, <2>3, <2>4
<1>6. CASE ~pruned /\ journal' = [journal EXCEPT ![s] = RowOf(s, res)]
           /\ unsaved' = IF res = "ok" THEN unsaved ELSE unsaved \cup {s}
  <2>1. \A t \in Service : Replayable(t)' <=> IF t = s THEN res = "ok" ELSE Replayable(t)
    BY <1>3, <1>6 DEF FlowInv, TypeOK, Replayable
  <2>2. CASE res = "ok"
    <3>1. Kept' = Kept \cup {s}
      BY <2>1, <2>2 DEF Kept
    <3>2. Promise!Complete(s)
      BY <1>1, <1>2, <1>6, <2>2, <3>1 DEF Promise!Complete
    <3>. QED BY <3>2 DEF Promise!Next
  <2>3. CASE res # "ok"
    <3>1. Kept' = Kept
      BY <1>2, <2>1, <2>3 DEF Kept
    <3>2. Promise!Excuse(s)
      BY <1>1, <1>6, <2>3, <3>1 DEF Promise!Excuse
    <3>. QED BY <3>2 DEF Promise!Next
  <2>. QED BY <2>2, <2>3
<1>. QED BY <1>1, <1>4, <1>5, <1>6 DEF Record

LEMMA SkipImplements ==
  ASSUME FlowInv, NEW s \in Service, Skip(s)
  PROVE  Promise!Next \/ UNCHANGED <<doneBar, excusedBar>>
<1>1. UNCHANGED <<journal, pruned>> /\ unsaved' = unsaved \cup {s}
  BY DEF Skip
<1>2. CASE pruned
  BY <1>1, <1>2 DEF doneBar, excusedBar
<1>3. CASE ~pruned
  <2>1. Promise!Excuse(s)
    BY <1>1, <1>3 DEF Promise!Excuse, Kept, Replayable
  <2>. QED BY <2>1 DEF Promise!Next
<1>. QED BY <1>2, <1>3

LEMMA FinishImplements ==
  ASSUME FlowInv, Finish
  PROVE  Promise!Next \/ UNCHANGED <<doneBar, excusedBar>>
<1>1. CASE ~Prunes
  BY <1>1, QuietStep DEF Finish, FlowInv, TypeOK
<1>2. CASE pruned
  BY <1>2 DEF Finish, doneBar, excusedBar
<1>3. CASE Prunes /\ ~pruned
  <2>1. Service = Kept \cup unsaved
    BY DEF Finish, FlowInv, TypeOK, SentIsKept, Kept
  <2>2. pruned'
    BY <1>3 DEF Finish
  <2>3. Promise!Close
    BY <1>3, <2>1, <2>2 DEF Promise!Close
  <2>. QED BY <2>3 DEF Promise!Next
<1>. QED BY <1>1, <1>2, <1>3

(* A service that completed stays completed over every crash and resume,   *)
(* and completes only after what is upstream of it.                        *)
THEOREM FlowKeepsItsPromise == Spec => Promised
<1>1. Init => Promise!Init
  BY DEF Init, Promise!Init, Kept, Replayable, EmptyJournal
<1>2. FlowInv /\ [Next]_vars => [Promise!Next]_<<doneBar, excusedBar>>
  <2>. SUFFICES ASSUME FlowInv, [Next]_vars
                PROVE  Promise!Next \/ UNCHANGED <<doneBar, excusedBar>>
    OBVIOUS
  <2>1. CASE UNCHANGED <<journal, unsaved, pruned>>
    BY <2>1, QuietStep
  <2>. QED
    BY <2>1, CompleteImplements, SkipImplements, FinishImplements
    DEF Next, vars, Launch, Interrupt, Replay, Begin
<1>. QED BY <1>1, <1>2, FlowInvHolds, PTL DEF Spec, Promised, Promise!Spec, doneBar, excusedBar


(***************************************************************************)
(* Ingestion.  What the store and the manifest keep of any sources, for any*)
(* number of actors and processes.  Sound is the inductive invariant: what *)
(* a job is made of at each point, what it has read, the half-written      *)
(* source, the manifest as the runs know it, the lock, how far a run has   *)
(* come with its purge, and which ingest vouches for the model.            *)
(***************************************************************************)

Writing == {"storing", "dropped", "added"}
Erasing == {"purging", "emptied"}
Listing == {"manifest", "rewriting"}
Mid == {"dropped", "added", "emptied"}
Early == {"resolved", "checking", "wiping", "classifying", "extracting", "hashing"}

(* What the manifest may list. *)
Uploads == File \ Configured

(* What the job of an actor is made of, at each point.                     *)
Shaped(j) ==
  /\ j.at # "idle" /\ j.kind # "delete" => j.model \in Model
  /\ j.kind = "delete" => j.at \in Erasing \cup Listing \cup {"unlinking"}
  /\ j.kind = "managed" => /\ j.at \notin Erasing \cup {"unlinking"}
                           /\ j.sources \cap File \subseteq Uploads
  /\ j.kind = "run" => j.at \notin Listing \cup {"unlinking"}
  /\ j.purge => j.kind = "run"
  /\ j.saved \subseteq Uploads
  /\ j.current # None <=> j.at \in Mid
  /\ j.at \in Mid => j.current \in j.todo
  /\ j.at \in {"dropped", "added"} => j.open
  /\ j.kind # "delete" => j.done \subseteq j.sources
  /\ j.at \in {"extracting", "hashing"} \cup Writing => j.todo \subseteq j.sources
  /\ j.at \in {"hashing"} \cup Writing => \A s \in j.todo : j.text[s] \in Text
  /\ j.at \in Writing => \A s \in j.todo : j.hash[s] = j.text[s] \/ s \in j.changed
  /\ j.at \in Writing /\ j.kind = "run" /\ ~j.fetched /\ ~j.barren => j.purge \/ j.sources \cap File = {}
  /\ j.at \in Early => ~j.fetched
  /\ j.at \in {"extracting", "hashing"} => j.barren
  /\ j.at \in Erasing /\ j.kind = "run" => j.todo \subseteq File \ j.sources

AllShaped == \A a \in Actor : Shaped(job[a])

(* What was read is on disk still, or the change was seen.                 *)
ReadIsThere == \A a \in Actor : job[a].at = "hashing" =>
  \A s \in job[a].todo : disk[s] = job[a].text[s] \/ ~Present(s) \/ s \in job[a].changed

(* A store that does not open has no model and no manifest, and nothing of *)
(* a source that was not torn; one is torn by a fault only.                *)
ClosedIsBare == Exists /\ ~Opens =>
  /\ store.identity = None /\ store.managed = {}
  /\ \A s \in Source \ torn : store.hash[s] = None /\ store.chunks[s] = {}

TornByFault == faults = 0 => torn = {}

(* The chunks of a source that a job alone is writing or erasing.          *)
Chunks(s) == {c.text : c \in store.chunks[s]}

AloneOn(a, s) ==
  /\ \A b \in Actor \ {a} : job[b].current # s
  /\ Opens
  /\ job[a].at \in {"dropped", "emptied"} => store.chunks[s] = {}
  /\ job[a].at = "added" => Chunks(s) = {job[a].text[s]}

HalfWritten == \A a \in Actor : job[a].current \in Source \ crossed => AloneOn(a, job[a].current)

(* The manifest, and what a run has not seen of it.                        *)
Manifest == IF Opens THEN store.managed ELSE {}

ManifestSound ==
  /\ Manifest \subseteq Uploads
  /\ \A s \in Source \ contended : s \in Manifest <=> s \in kept
  /\ \A a \in Actor : job[a].kind = "run" /\ job[a].at # "idle" =>
       Manifest \ job[a].sources \subseteq Url \cup late \cup contended \cup {s \in Source : ~Present(s)}

(* One ingest at a time, but of two processes.                             *)
OneAtATime == ~together => \A a, b \in Actor : Ingesting(a) /\ Ingesting(b) => a = b

(* How far a run has come with its purge.                                  *)
Purging(a) == job[a].kind = "run" /\ ~job[a].barren =>
  /\ job[a].at = "fetching" => job[a].sources \cap File = {} \/ Unresolved(a) = {}
  /\ job[a].at \in Writing /\ job[a].fetched => job[a].purge \/ Unresolved(a) = {}
  /\ job[a].at \in Erasing => Unresolved(a) \subseteq job[a].todo
  /\ job[a].at = "recording" => Unresolved(a) = {}

PurgeSound == ~together => \A a \in Actor : Purging(a)

(* An ingest that has checked the model of the store.                      *)
Past(a) == Ingesting(a) /\ job[a].at \notin {"checking", "wiping"}
AllChunks == UNION {store.chunks[s] : s \in Source}
AllOf(model) == \A c \in AllChunks : c.model = model

ModelSound == Exists /\ faults = 0 /\ ~together =>
  /\ store.identity # None => AllOf(store.identity)
  /\ store.identity # None => \A a \in Actor : Past(a) => job[a].model = store.identity
  /\ store.identity = None /\ AllChunks # {} =>
       \E a \in Actor : Past(a) /\ job[a].open /\ AllOf(job[a].model)

Sound == AllShaped /\ ReadIsThere /\ ClosedIsBare /\ TornByFault /\ HashTellsContent /\ HalfWritten
           /\ ManifestSound /\ OneAtATime /\ PurgeSound /\ ModelSound

USE IngestionAssumption, StoreAssumption

Fields == {"at", "kind", "force", "model", "sources", "todo", "text", "hash", "open", "barren",
           "fetched", "purge", "current", "saved", "done", "changed"}

(* Two jobs differ in these fields at most.                                *)
SameBut(y, j, fields) == \A f \in Fields \ fields : y[f] = j[f]

Others(a) == \A b \in Actor \ {a} : job'[b] = job[b]

LEMMA IdleFacts == Idle \in Job /\ Shaped(Idle) /\ Idle.at = "idle" /\ Idle.current = None
BY DEF Idle, Job, At, Kind, Shaped, Writing, Erasing, Mid, Listing, Early

(* What the fields of a job are. *)
LEMMA JobFields ==
  ASSUME NEW j \in Job
  PROVE  /\ j.at \in At /\ j.kind \in Kind /\ j.force \in BOOLEAN /\ j.model \in Model \cup {None}
         /\ j.sources \subseteq Source /\ j.todo \subseteq Source
         /\ j.text \in [Source -> Content \cup {None}] /\ j.hash \in [Source -> Content \cup {None}]
         /\ j.open \in BOOLEAN /\ j.barren \in BOOLEAN /\ j.fetched \in BOOLEAN /\ j.purge \in BOOLEAN
         /\ j.current \in Source \cup {None} /\ j.saved \subseteq Source /\ j.done \subseteq Source
         /\ j.changed \subseteq Source
BY DEF Job

LEMMA OneBecomes ==
  ASSUME IngestionTypeOK, NEW a \in Actor, NEW work \in Job, Becomes(a, work)
  PROVE  job' \in [Actor -> Job] /\ job'[a] = work /\ Others(a)
BY DEF IngestionTypeOK, Becomes, Others

LEMMA StopsEffect ==
  ASSUME IngestionTypeOK, NEW a \in Actor, Stops(a)
  PROVE  job' \in [Actor -> Job] /\ job'[a] = Idle /\ Others(a)
BY IdleFacts, OneBecomes DEF Stops

LEMMA MovedJob ==
  ASSUME NEW j \in Job, NEW at \in At, NEW y, y = [j EXCEPT !.at = at]
  PROVE  y \in Job /\ y.at = at /\ SameBut(y, j, {"at"})
BY DEF Job, SameBut, Fields

LEMMA MovesEffect ==
  ASSUME IngestionTypeOK, NEW a \in Actor, NEW at \in At, Moves(a, at)
  PROVE  job' \in [Actor -> Job] /\ Others(a) /\ job'[a].at = at /\ SameBut(job'[a], job[a], {"at"})
<1>. DEFINE y == [job[a] EXCEPT !.at = at]
<1>1. job[a] \in Job
  BY DEF IngestionTypeOK
<1>2. y \in Job /\ y.at = at /\ SameBut(y, job[a], {"at"})
  BY <1>1, MovedJob
<1>3. Becomes(a, y)
  BY DEF Moves
<1>. HIDE DEF y
<1>. QED BY <1>2, <1>3, OneBecomes

(* The managed sources of a store that opens, and the sources of a run.    *)
LEMMA ResolvedFacts ==
  ASSUME IngestionTypeOK
  PROVE  /\ Resolved \subseteq Source /\ Manifest \subseteq Source
         /\ \A s \in Manifest \ Resolved : s \in File /\ ~Present(s)
<1>1. store # None => store.managed \subseteq Source
  BY DEF IngestionTypeOK, Store
<1>. QED BY <1>1 DEF Resolved, Manifest, Opens, Exists, Source, Present

RunOf(force, model, sources) ==
  [Idle EXCEPT !.at = "resolved", !.force = force, !.model = model, !.sources = sources]

LEMMA RunJob ==
  ASSUME NEW force \in BOOLEAN, NEW model \in Model, NEW sources \in SUBSET Source,
         NEW y, y = RunOf(force, model, sources)
  PROVE  /\ y \in Job /\ y.at = "resolved" /\ y.model = model /\ y.sources = sources
         /\ y.kind = "run" /\ y.current = None /\ Shaped(y)
<1>1. /\ y \in Job /\ y.at = "resolved" /\ y.model = model /\ y.sources = sources
      /\ SameBut(y, Idle, {"at", "force", "model", "sources"})
  BY DEF RunOf, Job, Idle, At, Kind, SameBut, Fields
<1>. QED BY <1>1 DEF Idle, SameBut, Fields, Shaped, Writing, Erasing, Mid, Listing, Early

LEMMA StartRunEffect ==
  ASSUME IngestionTypeOK, NEW a \in Actor, StartRun(a)
  PROVE  /\ job' \in [Actor -> Job] /\ Others(a) /\ Shaped(job'[a])
         /\ job'[a].at = "resolved" /\ job'[a].kind = "run" /\ job'[a].current = None
         /\ job'[a].sources = Resolved
<1>1. PICK force \in BOOLEAN, model \in Model :
        Becomes(a, [Idle EXCEPT !.at = "resolved", !.force = force, !.model = model, !.sources = Resolved])
  BY DEF StartRun
<1>. DEFINE y == RunOf(force, model, Resolved)
<1>2. /\ y \in Job /\ y.at = "resolved" /\ y.model = model /\ y.sources = Resolved
      /\ y.kind = "run" /\ y.current = None /\ Shaped(y)
  BY RunJob, ResolvedFacts
<1>3. Becomes(a, y)
  BY <1>1 DEF RunOf
<1>. HIDE DEF y
<1>. QED BY <1>2, <1>3, OneBecomes

ManagedOf(model, s) ==
  [Idle EXCEPT !.at = "resolved", !.kind = "managed", !.model = model, !.sources = {s}]

LEMMA ManagedJob ==
  ASSUME NEW model \in Model, NEW s \in Uploads \cup Url, NEW y, y = ManagedOf(model, s)
  PROVE  /\ y \in Job /\ y.at = "resolved" /\ y.model = model /\ y.sources = {s}
         /\ y.kind = "managed" /\ y.current = None /\ Shaped(y)
<1>1. /\ y \in Job /\ y.at = "resolved" /\ y.model = model /\ y.sources = {s} /\ y.kind = "managed"
      /\ SameBut(y, Idle, {"at", "kind", "model", "sources"})
  BY DEF ManagedOf, Job, Idle, At, Kind, SameBut, Fields, Uploads, Source
<1>2. {s} \cap File \subseteq Uploads
  BY DEF Uploads
<1>. QED BY <1>1, <1>2 DEF Idle, SameBut, Fields, Shaped, Writing, Erasing, Mid, Listing, Early

(* A change of s is noted by those that have read it and not hashed it.    *)
Noted(j, y) == y.changed \in SUBSET Source /\ j.changed \subseteq y.changed /\ SameBut(y, j, {"changed"})

LEMMA NotedJob ==
  ASSUME NEW j \in Job, NEW s \in Source, NEW y, y = [j EXCEPT !.changed = @ \cup {s}]
  PROVE  y \in Job /\ Noted(j, y) /\ y.changed = j.changed \cup {s}
BY DEF Job, Noted, SameBut, Fields

LEMMA NotedFields ==
  ASSUME NEW j, NEW y, Noted(j, y)
  PROVE  /\ y.at = j.at /\ y.kind = j.kind /\ y.force = j.force /\ y.model = j.model
         /\ y.sources = j.sources /\ y.todo = j.todo /\ y.text = j.text /\ y.hash = j.hash
         /\ y.open = j.open /\ y.barren = j.barren /\ y.fetched = j.fetched /\ y.purge = j.purge
         /\ y.current = j.current /\ y.saved = j.saved /\ y.done = j.done
         /\ j.changed \subseteq y.changed
BY DEF Noted, SameBut, Fields

LEMMA NotedShaped ==
  ASSUME NEW j, NEW y, Shaped(j), Noted(j, y)
  PROVE  Shaped(y)
BY NotedFields DEF Shaped

LEMMA SameIsNoted == ASSUME NEW j \in Job PROVE Noted(j, j)
BY DEF Job, Noted, SameBut

LEMMA EditEffect ==
  ASSUME IngestionTypeOK, NEW s \in Source, Edit(s)
  PROVE  /\ job' \in [Actor -> Job] /\ disk' \in [Source -> Content \cup {None}]
         /\ \A b \in Actor : Noted(job[b], job'[b])
         /\ \A b \in Actor : job[b].at = "hashing" /\ s \in job[b].todo => s \in job'[b].changed
         /\ \A t \in Source \ {s} : disk'[t] = disk[t]
         /\ s \in Configured \cup Url
<1>1. /\ job' = [a \in Actor |-> IF job[a].at = "hashing" /\ s \in job[a].todo
                                THEN [job[a] EXCEPT !.changed = @ \cup {s}] ELSE job[a]]
      /\ \E c \in Content \cup {None} : disk' = [disk EXCEPT ![s] = c]
      /\ s \in Configured \cup Url
  BY DEF Edit
<1>2. ASSUME NEW b \in Actor
      PROVE  /\ job'[b] \in Job /\ Noted(job[b], job'[b])
             /\ job[b].at = "hashing" /\ s \in job[b].todo => s \in job'[b].changed
  <2>1. job[b] \in Job
    BY DEF IngestionTypeOK
  <2>2. CASE job[b].at = "hashing" /\ s \in job[b].todo
    <3>1. job'[b] = [job[b] EXCEPT !.changed = @ \cup {s}]
      BY <1>1, <2>2
    <3>2. job'[b] \in Job /\ Noted(job[b], job'[b]) /\ job'[b].changed = job[b].changed \cup {s}
      BY <2>1, <3>1, NotedJob
    <3>. QED BY <3>2
  <2>3. CASE ~(job[b].at = "hashing" /\ s \in job[b].todo)
    <3>1. job'[b] = job[b]
      BY <1>1, <2>3
    <3>. QED BY <2>1, <2>3, <3>1, SameIsNoted
  <2>. QED BY <2>2, <2>3
<1>3. job' \in [Actor -> Job]
  BY <1>1, <1>2
<1>4. disk' \in [Source -> Content \cup {None}] /\ \A t \in Source \ {s} : disk'[t] = disk[t]
  BY <1>1 DEF IngestionTypeOK
<1>. QED BY <1>1, <1>2, <1>3, <1>4

LEMMA StartManagedEffect ==
  ASSUME IngestionTypeOK, NEW a \in Actor, StartManaged(a)
  PROVE  \E s \in Source :
         /\ job' \in [Actor -> Job] /\ disk' \in [Source -> Content \cup {None}]
         /\ \A b \in Actor \ {a} : Noted(job[b], job'[b])
         /\ Shaped(job'[a]) /\ job'[a].at = "resolved" /\ job'[a].kind = "managed" /\ job'[a].current = None
         /\ s \in File => \A b \in Actor \ {a} : job[b].at = "hashing" /\ s \in job[b].todo => s \in job'[b].changed
         /\ s \in Url => disk' = disk
         /\ \A t \in Source \ {s} : disk'[t] = disk[t]
         /\ late' = IF ~Present(s) /\ Unseen({s}) THEN late \cup {s} ELSE late
         /\ edits' \in Nat
<1>1. PICK s \in Uploads \cup Url, model \in Model :
       /\ IF s \in Url THEN UNCHANGED <<disk, edits>>
          ELSE /\ \E c \in Text : disk' = [disk EXCEPT ![s] = c]
               /\ edits' = IF Present(s) THEN edits + 1 ELSE edits
       /\ job' = [b \in Actor |->
            IF b = a THEN [Idle EXCEPT !.at = "resolved", !.kind = "managed",
                                       !.model = model, !.sources = {s}]
            ELSE IF s \in File /\ job[b].at = "hashing" /\ s \in job[b].todo
                 THEN [job[b] EXCEPT !.changed = @ \cup {s}] ELSE job[b]]
       /\ late' = IF ~Present(s) /\ Unseen({s}) THEN late \cup {s} ELSE late
  BY DEF StartManaged, Uploads
<1>0. s \in Source
  BY DEF Uploads, Source
<1>2. ASSUME NEW b \in Actor \ {a}
      PROVE  /\ job'[b] \in Job /\ Noted(job[b], job'[b])
             /\ s \in File /\ job[b].at = "hashing" /\ s \in job[b].todo => s \in job'[b].changed
  <2>1. job[b] \in Job
    BY DEF IngestionTypeOK
  <2>2. CASE s \in File /\ job[b].at = "hashing" /\ s \in job[b].todo
    <3>1. job'[b] = [job[b] EXCEPT !.changed = @ \cup {s}]
      BY <1>1, <2>2
    <3>2. job'[b] \in Job /\ Noted(job[b], job'[b]) /\ job'[b].changed = job[b].changed \cup {s}
      BY <1>0, <2>1, <3>1, NotedJob
    <3>. QED BY <3>2
  <2>3. CASE ~(s \in File /\ job[b].at = "hashing" /\ s \in job[b].todo)
    <3>1. job'[b] = job[b]
      BY <1>1, <2>3
    <3>. QED BY <2>1, <2>3, <3>1, SameIsNoted
  <2>. QED BY <2>2, <2>3
<1>3. job'[a] = ManagedOf(model, s)
  BY <1>1 DEF ManagedOf
<1>4. job'[a] \in Job /\ Shaped(job'[a]) /\ job'[a].at = "resolved" /\ job'[a].kind = "managed" /\ job'[a].current = None
  BY <1>3, ManagedJob
<1>5. job' \in [Actor -> Job]
  <2>1. job' = [b \in Actor |-> job'[b]]
    BY <1>1
  <2>. QED BY <1>2, <1>4, <2>1
<1>6. /\ disk' \in [Source -> Content \cup {None}] /\ \A t \in Source \ {s} : disk'[t] = disk[t]
      /\ s \in Url => disk' = disk
      /\ edits' \in Nat
  BY <1>0, <1>1 DEF IngestionTypeOK, Content
<1>. QED BY <1>0, <1>1, <1>2, <1>4, <1>5, <1>6

(***************************************************************************)
(* What each step makes of the job of its actor.                           *)
(***************************************************************************)

LEMMA JobNow ==
  ASSUME IngestionTypeOK, Sound, NEW a \in Actor
  PROVE  job[a] \in Job /\ Shaped(job[a])
BY DEF IngestionTypeOK, Sound, AllShaped

LEMMA MovedShaped ==
  ASSUME NEW j \in Job, Shaped(j), NEW y \in Job, SameBut(y, j, {"at"}),
         \/ j.at = "resolved" /\ y.at = "checking"
         \/ j.at = "checking" /\ y.at = "classifying"
         \/ j.at = "wiping" /\ y.at = "classifying"
         \/ j.at = "dropped" /\ y.at = "added"
         \/ j.at = "storing" /\ y.at \in {"fetching", "recording"}
         \/ j.at = "recording" /\ j.kind = "managed" /\ y.at = "manifest"
         \/ j.at = "rewriting" /\ j.kind # "managed" /\ y.at = "unlinking"
  PROVE  Shaped(y)
<1>1. /\ y.kind = j.kind /\ y.model = j.model /\ y.sources = j.sources /\ y.todo = j.todo
      /\ y.text = j.text /\ y.hash = j.hash /\ y.open = j.open /\ y.barren = j.barren
      /\ y.fetched = j.fetched /\ y.purge = j.purge /\ y.current = j.current /\ y.saved = j.saved
      /\ y.done = j.done /\ y.changed = j.changed /\ j.kind \in Kind
  BY DEF SameBut, Fields, Job
<1>. QED BY <1>1 DEF Shaped, Kind, Writing, Erasing, Mid, Listing, Early

LEMMA AcquireEffect ==
  ASSUME IngestionTypeOK, Sound, NEW a \in Actor, Acquire(a)
  PROVE  /\ job' \in [Actor -> Job] /\ Others(a) /\ Shaped(job'[a])
         /\ \/ job'[a] = Idle /\ together' = together
            \/ /\ ~Locked(a) /\ job'[a].at = "checking" /\ SameBut(job'[a], job[a], {"at"})
               /\ together' = (together \/ \E b \in Actor \ {a} : Ingesting(b) /\ home[b] # home[a])
<1>1. CASE Stops(a) /\ together' = together
  BY <1>1, StopsEffect, IdleFacts
<1>2. CASE ~(Stops(a) /\ together' = together)
  <2>1. /\ ~Locked(a) /\ Moves(a, "checking")
        /\ together' = (together \/ \E b \in Actor \ {a} : Ingesting(b) /\ home[b] # home[a])
        /\ job[a].at = "resolved"
    BY <1>2 DEF Acquire
  <2>2. "checking" \in At
    BY DEF At
  <2>3. job' \in [Actor -> Job] /\ Others(a) /\ job'[a].at = "checking" /\ SameBut(job'[a], job[a], {"at"})
    BY <2>1, <2>2, MovesEffect
  <2>. QED BY <2>1, <2>3, JobNow, MovedShaped
<1>. QED BY <1>1, <1>2

SavingOf(j, at, saved) == [j EXCEPT !.at = at, !.saved = saved]

LEMMA SavingJob ==
  ASSUME NEW j \in Job, Shaped(j), NEW saved \in SUBSET Source, saved \subseteq Uploads,
         NEW at \in At, (j.at = "checking" /\ at = "wiping") \/ (j.at = "manifest" /\ at = "rewriting"),
         NEW y, y = SavingOf(j, at, saved)
  PROVE  /\ y \in Job /\ y.at = at /\ y.saved = saved /\ SameBut(y, j, {"at", "saved"}) /\ Shaped(y)
<1>1. y \in Job /\ y.at = at /\ y.saved = saved /\ SameBut(y, j, {"at", "saved"})
  BY DEF Job, SameBut, Fields, SavingOf
<1>. QED BY <1>1 DEF SameBut, Fields, Shaped, Writing, Erasing, Mid, Listing, Early

LEMMA ManagedNow ==
  ASSUME IngestionTypeOK, Sound, Opens
  PROVE  store \in Store /\ store.managed \subseteq Source /\ store.managed \subseteq Uploads
BY DEF IngestionTypeOK, Sound, ManifestSound, Manifest, Opens, Exists, Store

Checked(a) == job'[a].at = "classifying" /\ SameBut(job'[a], job[a], {"at"})

LEMMA CheckModelEffect ==
  ASSUME IngestionTypeOK, Sound, NEW a \in Actor, CheckModel(a)
  PROVE  /\ job' \in [Actor -> Job] /\ Others(a) /\ Shaped(job'[a])
         /\ job[a].at = "checking"
         /\ \/ job'[a] = Idle /\ store' = store
            \/ job'[a].at = "wiping" /\ SameBut(job'[a], job[a], {"at", "saved"}) /\ store' = store
            \/ Checked(a) /\ ~Exists /\ store' = store
            \/ Checked(a) /\ Opens /\ Unlabelled /\ store' = Identified(job[a].model)
            \/ Checked(a) /\ Opens /\ store.identity = job[a].model /\ store' = store
<1>0. job[a] \in Job /\ Shaped(job[a]) /\ job[a].at = "checking" /\ "classifying" \in At /\ "wiping" \in At
  BY JobNow DEF CheckModel, At
<1>1. CASE Stops(a) /\ store' = store
  BY <1>0, <1>1, StopsEffect, IdleFacts
<1>2. ASSUME Moves(a, "classifying")
      PROVE  job' \in [Actor -> Job] /\ Others(a) /\ Shaped(job'[a]) /\ Checked(a)
  <2>1. job' \in [Actor -> Job] /\ Others(a) /\ job'[a].at = "classifying" /\ SameBut(job'[a], job[a], {"at"})
    BY <1>0, <1>2, MovesEffect
  <2>. QED BY <1>0, <2>1, MovedShaped DEF Checked
<1>3. CASE Opens /\ Becomes(a, SavingOf(job[a], "wiping", store.managed)) /\ store' = store
  <2>. DEFINE y == SavingOf(job[a], "wiping", store.managed)
  <2>1. store.managed \in SUBSET Source /\ store.managed \subseteq Uploads
    BY <1>3, ManagedNow
  <2>2. Becomes(a, y)
    BY <1>3
  <2>3. /\ y \in Job /\ y.at = "wiping" /\ SameBut(y, job[a], {"at", "saved"}) /\ Shaped(y)
    BY <1>0, <2>1, SavingJob
  <2>. HIDE DEF y
  <2>. QED BY <1>0, <1>3, <2>2, <2>3, OneBecomes
<1>4. \/ Stops(a) /\ store' = store
      \/ Moves(a, "classifying") /\ ~Exists /\ store' = store
      \/ Moves(a, "classifying") /\ Opens /\ Unlabelled /\ store' = Identified(job[a].model)
      \/ Moves(a, "classifying") /\ Opens /\ store.identity = job[a].model /\ store' = store
      \/ Opens /\ Becomes(a, SavingOf(job[a], "wiping", store.managed)) /\ store' = store
  BY DEF CheckModel, SavingOf
<1>. QED BY <1>0, <1>1, <1>2, <1>3, <1>4

LEMMA WipeEffect ==
  ASSUME IngestionTypeOK, Sound, NEW a \in Actor, Wipe(a)
  PROVE  /\ job' \in [Actor -> Job] /\ Others(a) /\ Shaped(job'[a])
         /\ job[a].at = "wiping"
         /\ job'[a] = Idle \/ (job'[a].at = "classifying" /\ SameBut(job'[a], job[a], {"at"}))
         /\ (store' = None \/ store' = Fresh(FALSE))
<1>0. job[a] \in Job /\ Shaped(job[a]) /\ job[a].at = "wiping" /\ "classifying" \in At
  BY JobNow DEF Wipe, At
<1>1. CASE Stops(a) /\ store' = Fresh(FALSE)
  BY <1>0, <1>1, StopsEffect, IdleFacts
<1>2. CASE Moves(a, "classifying") /\ store' = None
  <2>1. job' \in [Actor -> Job] /\ Others(a) /\ job'[a].at = "classifying" /\ SameBut(job'[a], job[a], {"at"})
    BY <1>0, <1>2, MovesEffect
  <2>. QED BY <1>0, <1>2, <2>1, MovedShaped
<1>. QED BY <1>1, <1>2 DEF Wipe

LEMMA StoreFields ==
  ASSUME NEW t \in Store
  PROVE  /\ t # None /\ t.dimensions \in BOOLEAN /\ t.identity \in Model \cup {None}
         /\ t.hash \in [Source -> Content \cup {None}] /\ t.chunks \in [Source -> SUBSET Chunk]
         /\ t.managed \subseteq Source
BY DEF Store

LEMMA FreshStore ==
  ASSUME NEW d \in BOOLEAN, NEW t, t = Fresh(d)
  PROVE  /\ t \in Store /\ t.dimensions = d /\ t.identity = None /\ t.managed = {}
         /\ \A s \in Source : t.hash[s] = None /\ t.chunks[s] = {}
BY DEF Fresh, Store

LEMMA StoreNow ==
  ASSUME IngestionTypeOK
  PROVE  /\ Exists => store \in Store
         /\ Opens => store \in Store /\ Exists /\ store.dimensions
         /\ ~Exists => store = None /\ ~Opens
BY DEF IngestionTypeOK, Exists, Opens

(* A removal cut short ends its job, and perhaps others, and leaves less.  *)
LEMMA WipeCutEffect ==
  ASSUME IngestionTypeOK, Sound, NEW a \in Actor, WipeCut(a)
  PROVE  /\ job' \in [Actor -> Job] /\ \A b \in Actor : job'[b] \in {Idle, job[b]}
         /\ job'[a] = Idle /\ Exists
         /\ store' # None =>
              /\ store' \in Store
              /\ Opens' => Opens /\ store'.managed = store.managed
              /\ ~Opens' => store'.identity = None /\ store'.managed = {}
              /\ \A s \in Source : store'.hash[s] \in {store.hash[s], None}
         /\ torn' = Source /\ contended' = contended \cup store.managed
         /\ crossed' = crossed \cup {s \in Source : Busy(a, s)}
         /\ faults' = faults + 1
         /\ UNCHANGED <<disk, home, edits, jobs, raced, kept, late, together>>
<1>1. PICK stopped \in {{a}, {b \in Actor : home[b] = home[a]}} :
        job' = [b \in Actor |-> IF b \in stopped THEN Idle ELSE job[b]]
  BY DEF WipeCut
<1>2. a \in stopped
  BY <1>1
<1>3. job' \in [Actor -> Job] /\ job'[a] = Idle /\ \A b \in Actor : job'[b] \in {Idle, job[b]}
  BY <1>1, <1>2, IdleFacts DEF IngestionTypeOK
<1>4. /\ Exists /\ store' \in Remains
      /\ torn' = Source /\ contended' = contended \cup store.managed
      /\ crossed' = crossed \cup {s \in Source : Busy(a, s)}
      /\ faults' = faults + 1
      /\ UNCHANGED <<disk, home, edits, jobs, raced, kept, late, together>>
  BY DEF WipeCut
<1>5. store \in Store
  BY <1>4 DEF IngestionTypeOK, Exists
<1>6. ASSUME NEW meta \in BOOLEAN, NEW hashes \in BOOLEAN, NEW chunks \in BOOLEAN,
             store' = Leftover(meta, hashes, chunks)
      PROVE  /\ store' \in Store
             /\ Opens' => Opens /\ store'.managed = store.managed
             /\ ~Opens' => store'.identity = None /\ store'.managed = {}
             /\ \A s \in Source : store'.hash[s] \in {store.hash[s], None}
  <2>. DEFINE none == Fresh(FALSE)
  <2>1. none \in Store /\ \A s \in Source : none.hash[s] = None
    BY FreshStore, ZenonT(30)
  <2>. HIDE DEF none
  <2>2. /\ store'.dimensions = (meta /\ store.dimensions)
        /\ store'.identity = IF meta THEN store.identity ELSE None
        /\ store'.managed = IF meta THEN store.managed ELSE {}
        /\ store'.hash = IF hashes THEN store.hash ELSE none.hash
    BY <1>6 DEF Leftover, none
  <2>3. store' \in Store
    BY <1>5, <1>6, <2>1 DEF Leftover, Store, none
  <2>4. store' # None
    BY <2>3, StoreFields
  <2>5. ~Opens => store.identity = None /\ store.managed = {}
    BY <1>4 DEF Sound, ClosedIsBare
  <2>. QED BY <1>4, <2>1, <2>2, <2>3, <2>4, <2>5 DEF Opens, Exists
<1>. QED BY <1>3, <1>4, <1>6 DEF Remains

ClassifiedOf(j, at, todo, done, hash) ==
  [j EXCEPT !.at = at, !.todo = todo, !.done = done, !.barren = todo # {},
            !.purge = j.kind = "run" /\ todo = {} /\ j.sources \cap File # {}, !.hash = hash]

LEMMA ClassifiedJob ==
  ASSUME NEW j \in Job, NEW at \in At, NEW todo \in SUBSET Source, NEW done \in SUBSET Source,
         NEW hash \in [Source -> Content \cup {None}], NEW y, y = ClassifiedOf(j, at, todo, done, hash)
  PROVE  /\ y \in Job /\ y.at = at /\ y.todo = todo /\ y.done = done /\ y.barren = (todo # {})
         /\ y.purge = (j.kind = "run" /\ todo = {} /\ j.sources \cap File # {})
         /\ y.hash = hash /\ SameBut(y, j, {"at", "todo", "done", "barren", "purge", "hash"})
BY ZenonT(30) DEF Job, SameBut, Fields, ClassifiedOf

LEMMA ClassifyEffect ==
  ASSUME IngestionTypeOK, Sound, NEW a \in Actor, Classify(a)
  PROVE  /\ job' \in [Actor -> Job] /\ Others(a) /\ Shaped(job'[a])
         /\ job[a].at = "classifying"
         /\ \/ job'[a] = Idle /\ Exists /\ ~Opens
            \/ /\ job'[a].at \in {"storing", "extracting"}
               /\ SameBut(job'[a], job[a], {"at", "todo", "done", "barren", "purge", "hash"})
<1>0. job[a] \in Job /\ Shaped(job[a]) /\ job[a].at = "classifying"
  BY JobNow DEF Classify
<1>1. CASE Stops(a) /\ Exists /\ ~Opens
  BY <1>0, <1>1, StopsEffect, IdleFacts
<1>2. CASE ~(Exists /\ ~Opens)
  <2>. DEFINE j == job[a]
              files == j.sources \cap File
              skipped == {s \in files : Present(s) /\ Unchanged(a, s, Known(s))}
              todo == {s \in files \ skipped : Present(s) \/ j.force}
              at == IF todo = {} THEN "storing" ELSE "extracting"
              hash == [s \in Source |-> IF s \in Url THEN Known(s) ELSE None]
              y == ClassifiedOf(j, at, todo, skipped, hash)
  <2>1. /\ todo \in SUBSET Source /\ skipped \in SUBSET Source /\ todo \subseteq j.sources \cap File
        /\ skipped \subseteq j.sources
    BY <1>0, JobFields
  <2>2. hash \in [Source -> Content \cup {None}]
    <3>1. \A s \in Source : Known(s) \in Content \cup {None}
      BY DEF Known, Exists, IngestionTypeOK, Store
    <3>. QED BY <3>1
  <2>3. Becomes(a, y)
    BY <1>2 DEF Classify, ClassifiedOf, PurgesUnread
  <2>4. at \in At /\ at = IF todo = {} THEN "storing" ELSE "extracting"
    BY DEF At
  <2>. HIDE DEF at, hash, todo, skipped
  <2>5. /\ y \in Job /\ y.at = at /\ y.todo = todo /\ y.done = skipped /\ y.barren = (todo # {})
        /\ y.purge = (j.kind = "run" /\ todo = {} /\ j.sources \cap File # {})
        /\ y.hash = hash /\ SameBut(y, j, {"at", "todo", "done", "barren", "purge", "hash"})
    BY <1>0, <2>1, <2>2, <2>4, ClassifiedJob
  <2>. HIDE DEF y
  <2>6. Shaped(y)
    BY <1>0, <2>1, <2>4, <2>5 DEF SameBut, Fields, Shaped, Writing, Erasing, Mid, Listing, Early
  <2>. QED BY <1>0, <2>3, <2>4, <2>5, <2>6, OneBecomes
<1>. QED BY <1>1, <1>2 DEF Classify

ExtractedOf(j, at, todo, text) == [j EXCEPT !.at = at, !.todo = todo, !.text = text]

LEMMA ExtractedJob ==
  ASSUME NEW j \in Job, NEW at \in At, NEW todo \in SUBSET Source,
         NEW text \in [Source -> Content \cup {None}], NEW y, y = ExtractedOf(j, at, todo, text)
  PROVE  /\ y \in Job /\ y.at = at /\ y.todo = todo /\ y.text = text /\ SameBut(y, j, {"at", "todo", "text"})
BY DEF Job, SameBut, Fields, ExtractedOf

LEMMA ExtractEffect ==
  ASSUME IngestionTypeOK, Sound, NEW a \in Actor, Extract(a)
  PROVE  /\ job' \in [Actor -> Job] /\ Others(a) /\ Shaped(job'[a])
         /\ job[a].at = "extracting" /\ job'[a].at \in {"storing", "hashing"}
         /\ SameBut(job'[a], job[a], {"at", "todo", "text"})
         /\ \A s \in job'[a].todo : job'[a].text[s] = disk[s]
<1>. DEFINE j == job[a]
            todo == {s \in j.todo : disk[s] \in Text}
            at == IF todo = {} THEN "storing" ELSE "hashing"
            text == [s \in Source |-> IF s \in todo THEN disk[s] ELSE None]
            y == ExtractedOf(j, at, todo, text)
<1>0. j \in Job /\ Shaped(j) /\ j.at = "extracting"
  BY JobNow DEF Extract
<1>1. /\ todo \in SUBSET Source /\ todo \subseteq j.todo
  BY <1>0, JobFields
<1>2. /\ text \in [Source -> Content \cup {None}]
      /\ \A s \in todo : text[s] = disk[s] /\ text[s] \in Text
  BY <1>1 DEF IngestionTypeOK, Content
<1>3. at \in At /\ at = IF todo = {} THEN "storing" ELSE "hashing"
  BY DEF At
<1>4. Becomes(a, y)
  BY DEF Extract, ExtractedOf
<1>. HIDE DEF at, text, todo
<1>5. y \in Job /\ y.at = at /\ y.todo = todo /\ y.text = text /\ SameBut(y, j, {"at", "todo", "text"})
  BY <1>0, <1>1, <1>2, <1>3, ExtractedJob
<1>. HIDE DEF y
<1>6. Shaped(y)
  BY <1>0, <1>1, <1>2, <1>3, <1>5 DEF SameBut, Fields, Shaped, Writing, Erasing, Mid, Listing, Early
<1>7. job' \in [Actor -> Job] /\ Others(a) /\ job'[a] = y
  BY <1>4, <1>5, OneBecomes
<1>. QED BY <1>0, <1>2, <1>3, <1>5, <1>6, <1>7

HashedOf(j, todo, hash) ==
  [j EXCEPT !.at = "storing", !.todo = todo, !.barren = (todo = {}),
            !.purge = j.kind = "run" /\ todo # {}, !.hash = hash]

LEMMA HashedJob ==
  ASSUME NEW j \in Job, NEW todo \in SUBSET Source,
         NEW hash \in [Source -> Content \cup {None}], NEW y, y = HashedOf(j, todo, hash)
  PROVE  /\ y \in Job /\ y.at = "storing" /\ y.todo = todo /\ y.barren = (todo = {})
         /\ y.purge = (j.kind = "run" /\ todo # {}) /\ y.hash = hash
         /\ SameBut(y, j, {"at", "todo", "barren", "purge", "hash"})
<1>1. "storing" \in At
  BY DEF At
<1>2. y \in Job
  BY <1>1, ZenonT(30) DEF Job, HashedOf
<1>3. /\ y.at = "storing" /\ y.todo = todo /\ y.barren = (todo = {})
      /\ y.purge = (j.kind = "run" /\ todo # {}) /\ y.hash = hash
  BY DEF Job, HashedOf
<1>4. SameBut(y, j, {"at", "todo", "barren", "purge", "hash"})
  BY DEF Job, SameBut, Fields, HashedOf
<1>. QED BY <1>2, <1>3, <1>4

LEMMA HashEffect ==
  ASSUME IngestionTypeOK, Sound, NEW a \in Actor, Hash(a)
  PROVE  /\ job' \in [Actor -> Job] /\ Others(a) /\ Shaped(job'[a])
         /\ job[a].at = "hashing" /\ job'[a].at = "storing"
         /\ SameBut(job'[a], job[a], {"at", "todo", "barren", "purge", "hash"})
<1>. DEFINE j == job[a]
            todo == {s \in j.todo : Present(s)}
            hash == [s \in Source |-> IF s \in todo THEN disk[s] ELSE j.hash[s]]
            y == HashedOf(j, todo, hash)
<1>0. j \in Job /\ Shaped(j) /\ j.at = "hashing"
  BY JobNow DEF Hash
<1>1. todo \in SUBSET Source /\ todo \subseteq j.todo
  BY <1>0, JobFields
<1>2. /\ hash \in [Source -> Content \cup {None}]
      /\ \A s \in todo : hash[s] = disk[s]
  BY <1>0, <1>1, JobFields DEF IngestionTypeOK
<1>3. \A s \in todo : disk[s] = j.text[s] \/ s \in j.changed
  BY <1>0 DEF Sound, ReadIsThere
<1>4. Becomes(a, y)
  BY DEF Hash, HashedOf
<1>. HIDE DEF hash, todo
<1>5. /\ y \in Job /\ y.at = "storing" /\ y.todo = todo /\ y.barren = (todo = {})
      /\ y.purge = (j.kind = "run" /\ todo # {}) /\ y.hash = hash
      /\ SameBut(y, j, {"at", "todo", "barren", "purge", "hash"})
  BY <1>0, <1>1, <1>2, HashedJob
<1>. HIDE DEF y
<1>6. Shaped(y)
  <2>1. /\ y.kind = j.kind /\ y.model = j.model /\ y.sources = j.sources /\ y.text = j.text
        /\ y.open = j.open /\ y.fetched = j.fetched /\ y.current = j.current /\ y.saved = j.saved
        /\ y.done = j.done /\ y.changed = j.changed
    BY <1>5 DEF SameBut, Fields
  <2>2. \A s \in y.todo : y.text[s] \in Text /\ (y.hash[s] = y.text[s] \/ s \in y.changed)
    BY <1>0, <1>1, <1>2, <1>3, <1>5, <2>1 DEF Shaped
  <2>3. ~y.fetched
    BY <1>0, <2>1 DEF Shaped, Early
  <2>4. y.kind = "run" => y.barren \/ y.purge
    BY <1>5, <2>1
  <2>. QED BY <1>0, <1>1, <1>5, <2>1, <2>2, <2>3, <2>4 DEF Shaped, Writing, Erasing, Mid, Listing, Early
<1>7. job' \in [Actor -> Job] /\ Others(a) /\ job'[a] = y
  BY <1>4, <1>5, OneBecomes
<1>. QED BY <1>0, <1>5, <1>6, <1>7

DroppedOf(j, s) == [j EXCEPT !.at = "dropped", !.current = s, !.open = TRUE]

LEMMA DroppedJob ==
  ASSUME NEW j \in Job, NEW s \in Source, NEW y, y = DroppedOf(j, s)
  PROVE  /\ y \in Job /\ y.at = "dropped" /\ y.current = s /\ y.open = TRUE
         /\ SameBut(y, j, {"at", "current", "open"})
BY DEF Job, At, SameBut, Fields, DroppedOf

LEMMA DropEffect ==
  ASSUME IngestionTypeOK, Sound, NEW a \in Actor, Drop(a)
  PROVE  \E s \in Source :
         /\ job' \in [Actor -> Job] /\ Others(a) /\ Shaped(job'[a])
         /\ job[a].at = "storing" /\ job'[a].at = "dropped" /\ job'[a].current = s /\ job'[a].open
         /\ SameBut(job'[a], job[a], {"at", "current", "open"})
         /\ store' = Replaced(s) /\ torn' = torn \ {s} /\ raced' = raced \ {s}
         /\ crossed' = IF Busy(a, s) THEN crossed \cup {s} ELSE crossed \ {s}
<1>1. PICK s \in job[a].todo :
        /\ Becomes(a, DroppedOf(job[a], s))
        /\ store' = Replaced(s) /\ torn' = torn \ {s} /\ raced' = raced \ {s}
        /\ crossed' = IF Busy(a, s) THEN crossed \cup {s} ELSE crossed \ {s}
  BY DEF Drop, DroppedOf
<1>. DEFINE j == job[a]
            y == DroppedOf(j, s)
<1>0. j \in Job /\ Shaped(j) /\ j.at = "storing" /\ s \in Source
  BY JobNow, JobFields DEF Drop
<1>2. y \in Job /\ y.at = "dropped" /\ y.current = s /\ y.open = TRUE /\ SameBut(y, j, {"at", "current", "open"})
  BY <1>0, DroppedJob
<1>3. Becomes(a, y)
  BY <1>1
<1>. HIDE DEF y
<1>4. Shaped(y)
  BY <1>0, <1>1, <1>2 DEF SameBut, Fields, Shaped, Writing, Erasing, Mid, Listing, Early
<1>5. job' \in [Actor -> Job] /\ Others(a) /\ job'[a] = y
  BY <1>2, <1>3, OneBecomes
<1>. QED BY <1>0, <1>1, <1>2, <1>4, <1>5

LEMMA AddEffect ==
  ASSUME IngestionTypeOK, Sound, NEW a \in Actor, Add(a)
  PROVE  /\ job' \in [Actor -> Job] /\ Others(a) /\ Shaped(job'[a])
         /\ job[a].at = "dropped" /\ job'[a].at = "added" /\ SameBut(job'[a], job[a], {"at"})
         /\ job[a].current \in Source /\ job[a].text[job[a].current] \in Text /\ job[a].model \in Model
         /\ job[a].open
         /\ store' = Added(job[a].current, [text |-> job[a].text[job[a].current], model |-> job[a].model])
         /\ Opens /\ Writes(a, job[a].current)
<1>0. job[a] \in Job /\ Shaped(job[a]) /\ job[a].at = "dropped" /\ Moves(a, "added") /\ "added" \in At
  BY JobNow DEF Add, At
<1>1. /\ store' = Added(job[a].current, [text |-> job[a].text[job[a].current], model |-> job[a].model])
      /\ Opens /\ Writes(a, job[a].current)
  BY DEF Add
<1>2. /\ job[a].current \in Source /\ job[a].text[job[a].current] \in Text /\ job[a].model \in Model
      /\ job[a].open
  BY <1>0, JobFields DEF Shaped, Writing, Mid, Erasing, Listing
<1>3. job' \in [Actor -> Job] /\ Others(a) /\ job'[a].at = "added" /\ SameBut(job'[a], job[a], {"at"})
  BY <1>0, MovesEffect
<1>4. Shaped(job'[a])
  BY <1>0, <1>3, MovedShaped
<1>. QED BY <1>0, <1>1, <1>2, <1>3, <1>4

LabelledOf(j, s) ==
  [j EXCEPT !.at = "storing", !.current = None, !.todo = @ \ {s}, !.done = @ \cup {s}]

LEMMA LabelledJob ==
  ASSUME NEW j \in Job, NEW s \in Source, NEW y, y = LabelledOf(j, s)
  PROVE  /\ y \in Job /\ y.at = "storing" /\ y.current = None /\ y.todo = j.todo \ {s} /\ y.done = j.done \cup {s}
         /\ SameBut(y, j, {"at", "current", "todo", "done"})
BY DEF Job, At, SameBut, Fields, LabelledOf

LEMMA LabelEffect ==
  ASSUME IngestionTypeOK, Sound, NEW a \in Actor, Label(a)
  PROVE  /\ job' \in [Actor -> Job] /\ Others(a) /\ Shaped(job'[a])
         /\ job[a].at = "added" /\ job'[a].at = "storing" /\ job'[a].current = None
         /\ SameBut(job'[a], job[a], {"at", "current", "todo", "done"})
         /\ job[a].current \in Source /\ job[a].current \in job[a].sources
         /\ job[a].hash[job[a].current] = job[a].text[job[a].current] \/ job[a].current \in job[a].changed
         /\ store' = Hashed(job[a].current, job[a].hash[job[a].current])
         /\ raced' = (IF job[a].current \in job[a].changed THEN raced \cup {job[a].current} ELSE raced)
         /\ Opens /\ Writes(a, job[a].current)
<1>. DEFINE j == job[a]
            s == j.current
            y == LabelledOf(j, s)
<1>0. j \in Job /\ Shaped(j) /\ j.at = "added" /\ j.kind \in Kind
  BY JobNow, JobFields DEF Label
<1>1. /\ store' = Hashed(s, j.hash[s]) /\ Opens /\ Writes(a, s)
      /\ raced' = (IF s \in j.changed THEN raced \cup {s} ELSE raced)
      /\ Becomes(a, y)
  BY DEF Label, LabelledOf
<1>2. s \in Source /\ s \in j.todo /\ s \in j.sources /\ (j.hash[s] = j.text[s] \/ s \in j.changed)
  BY <1>0, JobFields DEF Shaped, Writing, Mid, Erasing, Listing
<1>3. /\ y \in Job /\ y.at = "storing" /\ y.current = None /\ y.todo = j.todo \ {s} /\ y.done = j.done \cup {s}
      /\ SameBut(y, j, {"at", "current", "todo", "done"})
  BY <1>0, <1>2, LabelledJob
<1>. HIDE DEF y
<1>4. Shaped(y)
  BY <1>0, <1>2, <1>3 DEF SameBut, Fields, Shaped, Writing, Erasing, Mid, Listing, Early
<1>5. job' \in [Actor -> Job] /\ Others(a) /\ job'[a] = y
  BY <1>1, <1>3, OneBecomes
<1>. QED BY <1>0, <1>1, <1>2, <1>3, <1>4, <1>5

PurgingOf(j, todo) == [j EXCEPT !.at = "purging", !.todo = todo]

LEMMA PurgingJob ==
  ASSUME NEW j \in Job, NEW todo \in SUBSET Source, NEW y, y = PurgingOf(j, todo)
  PROVE  y \in Job /\ y.at = "purging" /\ y.todo = todo /\ SameBut(y, j, {"at", "todo"})
BY DEF Job, At, SameBut, Fields, PurgingOf

LEMMA ProceedEffect ==
  ASSUME IngestionTypeOK, Sound, NEW a \in Actor, Proceed(a)
  PROVE  /\ job' \in [Actor -> Job] /\ Others(a) /\ Shaped(job'[a])
         /\ job[a].at = "storing" /\ job[a].todo = {}
         /\ \/ job'[a] = Idle /\ Exists /\ ~Opens
            \/ /\ job[a].purge /\ job'[a].at = "purging" /\ job'[a].todo = Unresolved(a)
               /\ SameBut(job'[a], job[a], {"at", "todo"})
            \/ /\ ~job[a].purge /\ job'[a].at = (IF job[a].fetched THEN "recording" ELSE "fetching")
               /\ SameBut(job'[a], job[a], {"at"})
<1>. DEFINE j == job[a]
            at == IF j.fetched THEN "recording" ELSE "fetching"
<1>0. j \in Job /\ Shaped(j) /\ j.at = "storing" /\ j.todo = {} /\ j.fetched \in BOOLEAN
  BY JobNow, JobFields DEF Proceed
<1>1. CASE Stops(a) /\ Exists /\ ~Opens
  BY <1>0, <1>1, StopsEffect, IdleFacts
<1>2. CASE j.purge /\ Becomes(a, PurgingOf(j, Unresolved(a)))
  <2>. DEFINE y == PurgingOf(j, Unresolved(a))
  <2>1. Unresolved(a) \in SUBSET Source /\ Unresolved(a) \subseteq File \ j.sources
    BY DEF Unresolved, Source
  <2>2. y \in Job /\ y.at = "purging" /\ y.todo = Unresolved(a) /\ SameBut(y, j, {"at", "todo"})
    BY <1>0, <2>1, PurgingJob
  <2>3. Becomes(a, y)
    BY <1>2
  <2>. HIDE DEF y
  <2>4. Shaped(y)
    BY <1>0, <1>2, <2>1, <2>2 DEF SameBut, Fields, Shaped, Writing, Erasing, Mid, Listing, Early
  <2>5. job' \in [Actor -> Job] /\ Others(a) /\ job'[a] = y
    BY <2>2, <2>3, OneBecomes
  <2>. QED BY <1>0, <1>2, <2>2, <2>4, <2>5
<1>3. CASE ~j.purge /\ Moves(a, at)
  <2>1. at \in At /\ at \in {"fetching", "recording"}
    BY DEF At
  <2>2. job' \in [Actor -> Job] /\ Others(a) /\ job'[a].at = at /\ SameBut(job'[a], j, {"at"})
    BY <1>0, <1>3, <2>1, MovesEffect
  <2>3. Shaped(job'[a])
    BY <1>0, <2>1, <2>2, MovedShaped
  <2>. QED BY <1>0, <1>3, <2>2, <2>3
<1>4. \/ Stops(a) /\ Exists /\ ~Opens
      \/ j.purge /\ Becomes(a, PurgingOf(j, Unresolved(a)))
      \/ ~j.purge /\ Moves(a, at)
  BY DEF Proceed, PurgingOf
<1>. QED BY <1>1, <1>2, <1>3, <1>4

FetchedOf(j, todo, skipped, page) ==
  [j EXCEPT !.at = "storing", !.fetched = TRUE, !.todo = todo, !.done = @ \cup skipped,
            !.text = page, !.hash = page, !.purge = j.kind = "run" /\ j.sources \cap File = {}]

LEMMA FetchedJob ==
  ASSUME NEW j \in Job, NEW todo \in SUBSET Source, NEW skipped \in SUBSET Source,
         NEW page \in [Source -> Content \cup {None}], NEW y, y = FetchedOf(j, todo, skipped, page)
  PROVE  /\ y \in Job /\ y.at = "storing" /\ y.fetched = TRUE /\ y.todo = todo
         /\ y.done = j.done \cup skipped /\ y.text = page /\ y.hash = page
         /\ y.purge = (j.kind = "run" /\ j.sources \cap File = {})
         /\ SameBut(y, j, {"at", "fetched", "todo", "done", "text", "hash", "purge"})
<1>1. "storing" \in At
  BY DEF At
<1>2. y \in Job
  BY <1>1 DEF Job, FetchedOf
<1>3. /\ y.at = "storing" /\ y.fetched = TRUE /\ y.todo = todo
      /\ y.done = j.done \cup skipped /\ y.text = page /\ y.hash = page
      /\ y.purge = (j.kind = "run" /\ j.sources \cap File = {})
  BY DEF Job, FetchedOf
<1>4. SameBut(y, j, {"at", "fetched", "todo", "done", "text", "hash", "purge"})
  BY DEF Job, SameBut, Fields, FetchedOf
<1>. QED BY <1>2, <1>3, <1>4

LEMMA FetchEffect ==
  ASSUME IngestionTypeOK, Sound, NEW a \in Actor, Fetch(a)
  PROVE  /\ job' \in [Actor -> Job] /\ Others(a) /\ Shaped(job'[a])
         /\ job[a].at = "fetching" /\ job'[a].at = "storing" /\ job'[a].fetched
         /\ job'[a].purge = (job[a].kind = "run" /\ job[a].sources \cap File = {})
         /\ SameBut(job'[a], job[a], {"at", "fetched", "todo", "done", "text", "hash", "purge"})
<1>. DEFINE j == job[a]
            urls == {s \in j.sources \cap Url : disk[s] \in Text}
            skipped == {s \in urls : Unchanged(a, s, j.hash[s])}
            page == [s \in Source |-> IF s \in urls THEN disk[s] ELSE None]
            y == FetchedOf(j, urls \ skipped, skipped, page)
<1>0. j \in Job /\ Shaped(j) /\ j.at = "fetching"
  BY JobNow DEF Fetch
<1>1. urls \subseteq Source /\ urls \subseteq j.sources /\ skipped \subseteq urls
  BY <1>0, JobFields
<1>2. page \in [Source -> Content \cup {None}] /\ \A s \in urls : page[s] \in Text
  BY <1>1 DEF Content
<1>3. Becomes(a, y)
  BY DEF Fetch, FetchedOf
<1>. HIDE DEF page, skipped, urls
<1>4. urls \ skipped \in SUBSET Source /\ skipped \in SUBSET Source
  BY <1>1
<1>5. /\ y \in Job /\ y.at = "storing" /\ y.fetched = TRUE /\ y.todo = urls \ skipped
      /\ y.done = j.done \cup skipped /\ y.text = page /\ y.hash = page
      /\ y.purge = (j.kind = "run" /\ j.sources \cap File = {})
      /\ SameBut(y, j, {"at", "fetched", "todo", "done", "text", "hash", "purge"})
  BY <1>0, <1>2, <1>4, FetchedJob
<1>. HIDE DEF y
<1>6. Shaped(y)
  <2>1. /\ y.kind = j.kind /\ y.model = j.model /\ y.sources = j.sources
        /\ y.open = j.open /\ y.barren = j.barren /\ y.current = j.current /\ y.saved = j.saved
        /\ y.changed = j.changed
    BY <1>5 DEF SameBut, Fields
  <2>2. \A s \in y.todo : y.text[s] \in Text /\ y.hash[s] = y.text[s]
    BY <1>2, <1>5
  <2>3. y.todo \subseteq y.sources /\ (y.kind # "delete" => y.done \subseteq y.sources)
    BY <1>0, <1>1, <1>5, <2>1 DEF Shaped
  <2>. QED BY <1>0, <1>5, <2>1, <2>2, <2>3 DEF Shaped, Writing, Erasing, Mid, Listing, Early
<1>7. job' \in [Actor -> Job] /\ Others(a) /\ job'[a] = y
  BY <1>3, <1>5, OneBecomes
<1>. QED BY <1>0, <1>5, <1>6, <1>7

DeleteOf(s) == [Idle EXCEPT !.at = "purging", !.kind = "delete", !.sources = {s}, !.todo = {s}]

LEMMA DeleteJob ==
  ASSUME NEW s \in Source, NEW y, y = DeleteOf(s)
  PROVE  /\ y \in Job /\ y.at = "purging" /\ y.kind = "delete" /\ y.current = None /\ Shaped(y)
<1>1. /\ y \in Job /\ y.at = "purging" /\ y.kind = "delete" /\ y.sources = {s} /\ y.todo = {s}
      /\ SameBut(y, Idle, {"at", "kind", "sources", "todo"})
  BY DEF DeleteOf, Job, Idle, At, Kind, SameBut, Fields
<1>. QED BY <1>1 DEF Idle, SameBut, Fields, Shaped, Writing, Erasing, Mid, Listing, Early

LEMMA StartDeleteEffect ==
  ASSUME IngestionTypeOK, NEW a \in Actor, StartDelete(a)
  PROVE  /\ job' \in [Actor -> Job] /\ Others(a) /\ Shaped(job'[a])
         /\ job'[a].at = "purging" /\ job'[a].kind = "delete" /\ job'[a].current = None
<1>1. PICK s \in Source : Becomes(a, DeleteOf(s))
  BY DEF StartDelete, DeleteOf
<1>. DEFINE y == DeleteOf(s)
<1>2. y \in Job /\ y.at = "purging" /\ y.kind = "delete" /\ y.current = None /\ Shaped(y)
  BY DeleteJob
<1>3. Becomes(a, y)
  BY <1>1
<1>. HIDE DEF y
<1>. QED BY <1>2, <1>3, OneBecomes

EmptiedOf(j, s) == [j EXCEPT !.at = "emptied", !.current = s]

LEMMA EmptiedJob ==
  ASSUME NEW j \in Job, NEW s \in Source, NEW y, y = EmptiedOf(j, s)
  PROVE  y \in Job /\ y.at = "emptied" /\ y.current = s /\ SameBut(y, j, {"at", "current"})
BY DEF Job, At, SameBut, Fields, EmptiedOf

LEMMA EmptyEffect ==
  ASSUME IngestionTypeOK, Sound, NEW a \in Actor, Empty(a)
  PROVE  \E s \in Source :
         /\ job' \in [Actor -> Job] /\ Others(a) /\ Shaped(job'[a])
         /\ job[a].at = "purging" /\ job'[a].at = "emptied" /\ job'[a].current = s
         /\ SameBut(job'[a], job[a], {"at", "current"})
         /\ store' = Cleared(s) /\ Writes(a, s) /\ Opens
<1>1. PICK s \in job[a].todo : Becomes(a, EmptiedOf(job[a], s)) /\ store' = Cleared(s) /\ Writes(a, s)
  BY DEF Empty, EmptiedOf
<1>. DEFINE j == job[a]
            y == EmptiedOf(j, s)
<1>0. j \in Job /\ Shaped(j) /\ j.at = "purging" /\ s \in Source /\ Opens
  BY JobNow, JobFields DEF Empty
<1>2. y \in Job /\ y.at = "emptied" /\ y.current = s /\ SameBut(y, j, {"at", "current"})
  BY <1>0, EmptiedJob
<1>3. Becomes(a, y)
  BY <1>1
<1>. HIDE DEF y
<1>4. Shaped(y)
  BY <1>0, <1>1, <1>2 DEF SameBut, Fields, Shaped, Writing, Erasing, Mid, Listing, Early
<1>5. job' \in [Actor -> Job] /\ Others(a) /\ job'[a] = y
  BY <1>2, <1>3, OneBecomes
<1>. QED BY <1>0, <1>1, <1>2, <1>4, <1>5

ForgottenOf(j, s) == [j EXCEPT !.at = "purging", !.current = None, !.todo = @ \ {s}]

LEMMA ForgottenJob ==
  ASSUME NEW j \in Job, NEW s \in Source, NEW y, y = ForgottenOf(j, s)
  PROVE  /\ y \in Job /\ y.at = "purging" /\ y.current = None /\ y.todo = j.todo \ {s}
         /\ SameBut(y, j, {"at", "current", "todo"})
BY DEF Job, At, SameBut, Fields, ForgottenOf

LEMMA ForgetEffect ==
  ASSUME IngestionTypeOK, Sound, NEW a \in Actor, Forget(a)
  PROVE  /\ job' \in [Actor -> Job] /\ Others(a) /\ Shaped(job'[a])
         /\ job[a].at = "emptied" /\ job'[a].at = "purging" /\ job'[a].current = None
         /\ job'[a].todo = job[a].todo \ {job[a].current}
         /\ SameBut(job'[a], job[a], {"at", "current", "todo"})
         /\ job[a].current \in Source
         /\ store' = Hashed(job[a].current, None) /\ Writes(a, job[a].current) /\ Opens
<1>. DEFINE j == job[a]
            s == j.current
            y == ForgottenOf(j, s)
<1>0. j \in Job /\ Shaped(j) /\ j.at = "emptied"
  BY JobNow DEF Forget
<1>1. Becomes(a, y) /\ store' = Hashed(s, None) /\ Writes(a, s) /\ Opens
  BY DEF Forget, ForgottenOf
<1>2. s \in Source
  BY <1>0, JobFields DEF Shaped, Mid
<1>3. /\ y \in Job /\ y.at = "purging" /\ y.current = None /\ y.todo = j.todo \ {s}
      /\ SameBut(y, j, {"at", "current", "todo"})
  BY <1>0, <1>2, ForgottenJob
<1>. HIDE DEF y
<1>4. Shaped(y)
  BY <1>0, <1>2, <1>3 DEF SameBut, Fields, Shaped, Writing, Erasing, Mid, Listing, Early
<1>5. job' \in [Actor -> Job] /\ Others(a) /\ job'[a] = y
  BY <1>1, <1>3, OneBecomes
<1>. QED BY <1>0, <1>1, <1>2, <1>3, <1>4, <1>5

PurgedOf(j, at) == [j EXCEPT !.purge = FALSE, !.at = at]

LEMMA PurgedJob ==
  ASSUME NEW j \in Job, NEW at \in At, NEW y, y = PurgedOf(j, at)
  PROVE  y \in Job /\ y.at = at /\ ~y.purge /\ SameBut(y, j, {"at", "purge"})
BY DEF Job, SameBut, Fields, PurgedOf

LEMMA PurgeDoneEffect ==
  ASSUME IngestionTypeOK, Sound, NEW a \in Actor, PurgeDone(a)
  PROVE  /\ job' \in [Actor -> Job] /\ Others(a) /\ Shaped(job'[a])
         /\ job[a].at = "purging" /\ job[a].todo = {} /\ SameBut(job'[a], job[a], {"at", "purge"})
         /\ \/ job[a].kind = "delete" /\ job'[a].at = "manifest"
            \/ job[a].kind = "run" /\ job'[a].at \in {"recording", "fetching"}
<1>. DEFINE j == job[a]
            at == IF j.kind = "delete" THEN "manifest" ELSE IF j.fetched THEN "recording" ELSE "fetching"
            y == PurgedOf(j, at)
<1>0. j \in Job /\ Shaped(j) /\ j.at = "purging" /\ j.todo = {} /\ j.kind \in {"run", "delete"}
  BY JobNow, JobFields DEF PurgeDone, Shaped, Erasing, Kind
<1>1. Becomes(a, y)
  BY DEF PurgeDone, PurgedOf
<1>2. at \in At /\ (j.kind = "delete" => at = "manifest") /\ (j.kind = "run" => at \in {"recording", "fetching"})
  BY <1>0 DEF At
<1>. HIDE DEF at
<1>3. y \in Job /\ y.at = at /\ ~y.purge /\ SameBut(y, j, {"at", "purge"})
  BY <1>0, <1>2, PurgedJob
<1>. HIDE DEF y
<1>4. Shaped(y)
  BY <1>0, <1>2, <1>3 DEF SameBut, Fields, Shaped, Writing, Erasing, Mid, Listing, Early
<1>5. job' \in [Actor -> Job] /\ Others(a) /\ job'[a] = y
  BY <1>1, <1>3, OneBecomes
<1>. QED BY <1>0, <1>2, <1>3, <1>4, <1>5

LEMMA RecordEffect ==
  ASSUME IngestionTypeOK, Sound, NEW a \in Actor, RecordModel(a)
  PROVE  /\ job' \in [Actor -> Job] /\ Others(a) /\ Shaped(job'[a])
         /\ job[a].at = "recording"
         /\ (job'[a] = Idle) \/ (job'[a].at = "manifest" /\ SameBut(job'[a], job[a], {"at"}))
         /\ store' = IF Opens /\ (job[a].open \/ job[a].force) THEN Identified(job[a].model) ELSE store
<1>0. job[a] \in Job /\ Shaped(job[a]) /\ job[a].at = "recording" /\ "manifest" \in At
  BY JobNow DEF RecordModel, At
<1>1. store' = IF Opens /\ (job[a].open \/ job[a].force) THEN Identified(job[a].model) ELSE store
  BY DEF RecordModel
<1>2. CASE Stops(a)
  BY <1>0, <1>1, <1>2, StopsEffect, IdleFacts
<1>3. CASE job[a].kind = "managed" /\ Moves(a, "manifest")
  <2>1. job' \in [Actor -> Job] /\ Others(a) /\ job'[a].at = "manifest" /\ SameBut(job'[a], job[a], {"at"})
    BY <1>0, <1>3, MovesEffect
  <2>2. Shaped(job'[a])
    BY <1>0, <1>3, <2>1, MovedShaped
  <2>. QED BY <1>0, <1>1, <2>1, <2>2
<1>. QED BY <1>2, <1>3 DEF RecordModel

LEMMA ReadManifestEffect ==
  ASSUME IngestionTypeOK, Sound, NEW a \in Actor, ReadManifest(a)
  PROVE  /\ job' \in [Actor -> Job] /\ Others(a) /\ Shaped(job'[a])
         /\ job[a].at = "manifest" /\ job'[a].at = "rewriting" /\ SameBut(job'[a], job[a], {"at", "saved"})
<1>. DEFINE j == job[a]
            y == SavingOf(j, "rewriting", store.managed)
<1>0. j \in Job /\ Shaped(j) /\ j.at = "manifest" /\ "rewriting" \in At
  BY JobNow DEF ReadManifest, At
<1>1. Becomes(a, y) /\ Opens
  BY DEF ReadManifest, SavingOf
<1>2. store.managed \in SUBSET Source /\ store.managed \subseteq Uploads
  BY <1>1, ManagedNow
<1>3. y \in Job /\ y.at = "rewriting" /\ SameBut(y, j, {"at", "saved"}) /\ Shaped(y)
  BY <1>0, <1>2, SavingJob
<1>. HIDE DEF y
<1>4. job' \in [Actor -> Job] /\ Others(a) /\ job'[a] = y
  BY <1>1, <1>3, OneBecomes
<1>. QED BY <1>0, <1>3, <1>4

LEMMA WriteManifestEffect ==
  ASSUME IngestionTypeOK, Sound, NEW a \in Actor, WriteManifest(a)
  PROVE  /\ job' \in [Actor -> Job] /\ Others(a) /\ Shaped(job'[a])
         /\ job[a].at = "rewriting"
         /\ (job'[a] = Idle) \/ (job'[a].at = "unlinking" /\ SameBut(job'[a], job[a], {"at"}))
<1>0. job[a] \in Job /\ Shaped(job[a]) /\ job[a].at = "rewriting" /\ "unlinking" \in At
  BY JobNow DEF WriteManifest, At
<1>1. CASE Stops(a)
  BY <1>0, <1>1, StopsEffect, IdleFacts
<1>2. CASE job[a].kind # "managed" /\ Moves(a, "unlinking")
  <2>1. job' \in [Actor -> Job] /\ Others(a) /\ job'[a].at = "unlinking" /\ SameBut(job'[a], job[a], {"at"})
    BY <1>0, <1>2, MovesEffect
  <2>2. Shaped(job'[a])
    BY <1>0, <1>2, <2>1, MovedShaped
  <2>. QED BY <1>0, <2>1, <2>2
<1>3. Stops(a) \/ (job[a].kind # "managed" /\ Moves(a, "unlinking"))
  BY DEF WriteManifest
<1>. QED BY <1>1, <1>2, <1>3

LEMMA StopAllEffect ==
  ASSUME IngestionTypeOK, NEW stopped \in SUBSET Actor, StopAll(stopped)
  PROVE  /\ job' \in [Actor -> Job]
         /\ \A b \in Actor : job'[b] = IF b \in stopped THEN Idle ELSE job[b]
BY IdleFacts DEF StopAll, IngestionTypeOK

(***************************************************************************)
(* What a commit makes of the store.                                       *)
(***************************************************************************)

(* The contents and the opening of the store are as they were.             *)
SameContents ==
  /\ Exists' <=> Exists
  /\ Opens' <=> Opens
  /\ Exists => store'.chunks = store.chunks /\ store'.hash = store.hash

LEMMA KeptContents == ASSUME store' = store PROVE SameContents /\ Manifest' = Manifest
BY DEF SameContents, Manifest, Exists, Opens

LEMMA IdentifiedContents ==
  ASSUME IngestionTypeOK, Opens, NEW model \in Model, store' = Identified(model)
  PROVE  /\ SameContents /\ Manifest' = Manifest /\ store' \in Store /\ store'.identity = model
         /\ store'.dimensions
<1>1. store \in Store /\ store.dimensions
  BY StoreNow
<1>2. /\ store' \in Store /\ store'.dimensions = store.dimensions /\ store'.identity = model
      /\ store'.managed = store.managed /\ store'.chunks = store.chunks /\ store'.hash = store.hash
  BY <1>1 DEF Identified, Store
<1>3. store' # None
  BY <1>2, StoreFields
<1>. QED BY <1>1, <1>2, <1>3 DEF SameContents, Manifest, Exists, Opens

LEMMA ListedContents ==
  ASSUME IngestionTypeOK, Opens, NEW managed \in SUBSET Source, store' = Listed(managed)
  PROVE  SameContents /\ Manifest' = managed /\ store' \in Store /\ store'.identity = store.identity
<1>1. store \in Store /\ store.dimensions
  BY StoreNow
<1>2. /\ store' \in Store /\ store'.dimensions = store.dimensions /\ store'.identity = store.identity
      /\ store'.managed = managed /\ store'.chunks = store.chunks /\ store'.hash = store.hash
  BY <1>1 DEF Listed, Store
<1>3. store' # None
  BY <1>2, StoreFields
<1>. QED BY <1>1, <1>2, <1>3 DEF SameContents, Manifest, Exists, Opens

(* A commit of replace_source or of a delete leaves all but one table.     *)
SameStore == /\ store' \in Store /\ Exists' /\ Opens'
             /\ store'.identity = store.identity /\ Manifest' = Manifest

LEMMA ClearedContents ==
  ASSUME IngestionTypeOK, Opens, NEW s \in Source, store' = Cleared(s)
  PROVE  /\ SameStore /\ store'.hash = store.hash /\ store'.chunks[s] = {}
         /\ \A r \in Source \ {s} : store'.chunks[r] = store.chunks[r]
<1>1. store \in Store /\ store.dimensions
  BY StoreNow
<1>2. /\ store' \in Store /\ store'.dimensions = store.dimensions /\ store'.identity = store.identity
      /\ store'.managed = store.managed /\ store'.hash = store.hash
      /\ store'.chunks[s] = {} /\ \A r \in Source \ {s} : store'.chunks[r] = store.chunks[r]
  BY <1>1 DEF Cleared, Store
<1>3. store' # None
  BY <1>2, StoreFields
<1>. QED BY <1>1, <1>2, <1>3 DEF SameStore, Manifest, Exists, Opens

LEMMA AddedContents ==
  ASSUME IngestionTypeOK, Opens, NEW s \in Source, NEW chunk \in Chunk, store' = Added(s, chunk)
  PROVE  /\ SameStore /\ store'.hash = store.hash /\ store'.chunks[s] = store.chunks[s] \cup {chunk}
         /\ \A r \in Source \ {s} : store'.chunks[r] = store.chunks[r]
<1>1. store \in Store /\ store.dimensions
  BY StoreNow
<1>2. /\ store' \in Store /\ store'.dimensions = store.dimensions /\ store'.identity = store.identity
      /\ store'.managed = store.managed /\ store'.hash = store.hash
      /\ store'.chunks[s] = store.chunks[s] \cup {chunk}
      /\ \A r \in Source \ {s} : store'.chunks[r] = store.chunks[r]
  BY <1>1 DEF Added, Store
<1>3. store' # None
  BY <1>2, StoreFields
<1>. QED BY <1>1, <1>2, <1>3 DEF SameStore, Manifest, Exists, Opens

LEMMA HashedContents ==
  ASSUME IngestionTypeOK, Opens, NEW s \in Source, NEW hash \in Content \cup {None}, store' = Hashed(s, hash)
  PROVE  /\ SameStore /\ store'.chunks = store.chunks
         /\ store'.hash[s] = hash /\ \A r \in Source \ {s} : store'.hash[r] = store.hash[r]
<1>1. store \in Store /\ store.dimensions
  BY StoreNow
<1>2. /\ store' \in Store /\ store'.dimensions = store.dimensions /\ store'.identity = store.identity
      /\ store'.managed = store.managed /\ store'.chunks = store.chunks
      /\ store'.hash[s] = hash /\ \A r \in Source \ {s} : store'.hash[r] = store.hash[r]
  BY <1>1 DEF Hashed, Store
<1>3. store' # None
  BY <1>2, StoreFields
<1>. QED BY <1>1, <1>2, <1>3 DEF SameStore, Manifest, Exists, Opens

LEMMA FreshContents ==
  ASSUME NEW d \in BOOLEAN, store' = Fresh(d)
  PROVE  /\ store' \in Store /\ Exists' /\ (Opens' <=> d) /\ store'.identity = None /\ Manifest' = {}
         /\ \A s \in Source : store'.hash[s] = None /\ store'.chunks[s] = {}
<1>1. /\ store' \in Store /\ store'.dimensions = d /\ store'.identity = None /\ store'.managed = {}
      /\ \A s \in Source : store'.hash[s] = None /\ store'.chunks[s] = {}
  BY FreshStore
<1>2. store' # None
  BY <1>1, StoreFields
<1>. QED BY <1>1, <1>2 DEF Manifest, Exists, Opens

(* The first commit of replace_source.                                     *)
LEMMA ReplacedContents ==
  ASSUME IngestionTypeOK, Sound, NEW s \in Source, store' = Replaced(s)
  PROVE  /\ store' \in Store /\ Exists' /\ Opens' /\ store'.chunks[s] = {} /\ Manifest' = Manifest
         /\ Exists => /\ store'.hash = store.hash /\ store'.identity = store.identity
                      /\ \A r \in Source \ {s} : store'.chunks[r] = store.chunks[r]
         /\ ~Exists => /\ store'.identity = None
                       /\ \A r \in Source : store'.hash[r] = None /\ store'.chunks[r] = {}
<1>1. CASE Exists
  <2>1. store \in Store
    BY <1>1, StoreNow
  <2>2. /\ store' \in Store /\ store'.dimensions /\ store'.identity = store.identity
        /\ store'.managed = store.managed /\ store'.hash = store.hash
        /\ store'.chunks[s] = {} /\ \A r \in Source \ {s} : store'.chunks[r] = store.chunks[r]
    BY <1>1, <2>1 DEF Replaced, Cleared, Store
  <2>3. store' # None
    BY <2>2, StoreFields
  <2>4. ~Opens => store.managed = {}
    BY <1>1 DEF Sound, ClosedIsBare
  <2>. QED BY <1>1, <2>2, <2>3, <2>4 DEF Manifest, Exists, Opens
<1>2. CASE ~Exists
  <2>1. store' = Fresh(TRUE) /\ Manifest = {}
    BY <1>2 DEF Replaced, Manifest, Opens
  <2>. QED BY <1>2, <2>1, FreshContents
<1>. QED BY <1>1, <1>2

(***************************************************************************)
(* Types and shapes.                                                       *)
(***************************************************************************)

LEMMA OneShaped ==
  ASSUME Sound, NEW a \in Actor, Others(a), Shaped(job'[a])
  PROVE  AllShaped'
BY DEF Sound, AllShaped, Others

StoreTyped == store' \in Store \cup {None}

LEMMA StoreStays == ASSUME IngestionTypeOK, store' = store PROVE StoreTyped
BY DEF IngestionTypeOK, StoreTyped

(* A step of the job alone.                                                *)
LEMMA QuietTypes ==
  ASSUME IngestionTypeOK, job' \in [Actor -> Job], UNCHANGED <<store, disk, home, edits, faults, history>>,
         jobs' \in 0 .. MaxJob
  PROVE  IngestionTypeOK'
BY DEF IngestionTypeOK, history, writing, registering

(* A step of the job and the store.                                        *)
LEMMA CommitTypes ==
  ASSUME IngestionTypeOK, job' \in [Actor -> Job], StoreTyped, UNCHANGED <<world, late, together>>,
         raced' \subseteq Source, torn' \subseteq Source, crossed' \subseteq Source,
         kept' \subseteq Source, contended' \subseteq Source
  PROVE  IngestionTypeOK'
<1>1. job' \in [Actor -> Job] /\ store' \in Store \cup {None}
  BY DEF StoreTyped
<1>2. UNCHANGED <<disk, home, edits, jobs, faults, late, together>>
  BY DEF world
<1>. QED BY <1>1, <1>2 DEF IngestionTypeOK

LEMMA BeginTypes ==
  ASSUME IngestionTypeOK, NEW a \in Actor, Begins(a)
  PROVE  jobs' \in 0 .. MaxJob
BY DEF Begins, IngestionTypeOK

LEMMA StartTypes ==
  ASSUME IngestionTypeOK, Sound, NEW a \in Actor, StartRun(a) \/ StartDelete(a)
  PROVE  IngestionTypeOK' /\ AllShaped'
<1>1. UNCHANGED <<store, disk, home, edits, faults, history>> /\ jobs' \in 0 .. MaxJob
  BY BeginTypes DEF StartRun, StartDelete
<1>2. job' \in [Actor -> Job] /\ Others(a) /\ Shaped(job'[a])
  BY StartRunEffect, StartDeleteEffect
<1>. QED BY <1>1, <1>2, OneShaped, QuietTypes

LEMMA StartManagedTypes ==
  ASSUME IngestionTypeOK, Sound, NEW a \in Actor, StartManaged(a)
  PROVE  IngestionTypeOK' /\ AllShaped'
<1>1. PICK s \in Source :
         /\ job' \in [Actor -> Job] /\ disk' \in [Source -> Content \cup {None}]
         /\ \A b \in Actor \ {a} : Noted(job[b], job'[b])
         /\ Shaped(job'[a])
         /\ late' = IF ~Present(s) /\ Unseen({s}) THEN late \cup {s} ELSE late
         /\ edits' \in Nat
  BY StartManagedEffect
<1>2. UNCHANGED <<store, home, faults, raced, torn, crossed, kept, contended, together>> /\ jobs' \in 0 .. MaxJob
  BY BeginTypes DEF StartManaged, writing
<1>3. AllShaped'
  BY <1>1, NotedShaped DEF Sound, AllShaped
<1>4. late' \subseteq Source
  BY <1>1 DEF IngestionTypeOK
<1>. QED BY <1>1, <1>2, <1>3, <1>4 DEF IngestionTypeOK

LEMMA EditTypes ==
  ASSUME IngestionTypeOK, Sound, NEW s \in Source, Edit(s)
  PROVE  IngestionTypeOK' /\ AllShaped'
<1>1. /\ job' \in [Actor -> Job] /\ disk' \in [Source -> Content \cup {None}]
      /\ \A b \in Actor : Noted(job[b], job'[b])
  BY EditEffect
<1>2. UNCHANGED <<store, home, jobs, faults, history>> /\ edits' = edits + 1
  BY DEF Edit
<1>3. AllShaped'
  BY <1>1, NotedShaped DEF Sound, AllShaped
<1>. QED BY <1>1, <1>2, <1>3 DEF IngestionTypeOK, history, writing, registering

LEMMA AcquireTypes ==
  ASSUME IngestionTypeOK, Sound, NEW a \in Actor, Acquire(a)
  PROVE  IngestionTypeOK' /\ AllShaped'
<1>1. job' \in [Actor -> Job] /\ Others(a) /\ Shaped(job'[a]) /\ together' \in BOOLEAN
  BY AcquireEffect DEF IngestionTypeOK
<1>2. UNCHANGED <<world, store, writing, registering>>
  BY DEF Acquire
<1>. QED BY <1>1, <1>2, OneShaped DEF IngestionTypeOK, world, writing, registering

(* The steps that read, move on or end.                                    *)
Reads(a) == \/ Classify(a) \/ Extract(a) \/ Hash(a) \/ Proceed(a) \/ Fetch(a) \/ PurgeDone(a)
            \/ ReadManifest(a) \/ Gone(a)

LEMMA ReadsUnchanged ==
  ASSUME NEW a \in Actor, Reads(a)
  PROVE  UNCHANGED <<world, store, history>>
BY DEF Reads, Classify, Extract, Hash, Proceed, Fetch, PurgeDone, ReadManifest, Gone

LEMMA ReadsShaped ==
  ASSUME IngestionTypeOK, Sound, NEW a \in Actor, Reads(a)
  PROVE  job' \in [Actor -> Job] /\ Others(a) /\ Shaped(job'[a])
<1>1. CASE Gone(a)
  <2>1. Stops(a)
    BY <1>1 DEF Gone
  <2>. QED BY <2>1, StopsEffect, IdleFacts
<1>. QED BY <1>1, ClassifyEffect, ExtractEffect, HashEffect, ProceedEffect, FetchEffect, PurgeDoneEffect,
             ReadManifestEffect DEF Reads

LEMMA ReadsTypes ==
  ASSUME IngestionTypeOK, Sound, NEW a \in Actor, Reads(a)
  PROVE  IngestionTypeOK' /\ AllShaped'
<1>1. UNCHANGED <<store, disk, home, edits, faults, history>> /\ jobs' \in 0 .. MaxJob
  BY ReadsUnchanged DEF world, IngestionTypeOK
<1>. QED BY <1>1, ReadsShaped, OneShaped, QuietTypes

LEMMA CheckModelTypes ==
  ASSUME IngestionTypeOK, Sound, NEW a \in Actor, CheckModel(a)
  PROVE  IngestionTypeOK' /\ AllShaped'
<1>1. /\ job' \in [Actor -> Job] /\ Others(a) /\ Shaped(job'[a]) /\ job[a].at = "checking"
      /\ store' = store \/ (Opens /\ store' = Identified(job[a].model))
  BY CheckModelEffect
<1>2. job[a].model \in Model
  BY <1>1, JobNow DEF Shaped, Erasing, Listing
<1>3. StoreTyped
  BY <1>1, <1>2, StoreStays, IdentifiedContents DEF StoreTyped
<1>4. UNCHANGED <<world, late, together, raced, torn, crossed, kept, contended>>
  BY DEF CheckModel, history, writing, registering
<1>. QED BY <1>1, <1>3, <1>4, OneShaped, CommitTypes DEF IngestionTypeOK

LEMMA WipeTypes ==
  ASSUME IngestionTypeOK, Sound, NEW a \in Actor, Wipe(a)
  PROVE  IngestionTypeOK' /\ AllShaped'
<1>1. /\ job' \in [Actor -> Job] /\ Others(a) /\ Shaped(job'[a])
      /\ store' = None \/ store' = Fresh(FALSE)
  BY WipeEffect
<1>2. StoreTyped
  BY <1>1, FreshContents DEF StoreTyped
<1>3. /\ contended' = contended \cup (IF Exists THEN store.managed ELSE {})
      /\ crossed' = crossed \cup {s \in Source : Busy(a, s)}
      /\ UNCHANGED <<world, raced, torn, kept, late, together>>
  BY DEF Wipe
<1>4. contended' \subseteq Source /\ crossed' \subseteq Source
  BY <1>3, StoreNow, StoreFields DEF IngestionTypeOK
<1>. QED BY <1>1, <1>2, <1>3, <1>4, OneShaped, CommitTypes DEF IngestionTypeOK

LEMMA WritesTypes ==
  ASSUME IngestionTypeOK, NEW a \in Actor, NEW s \in Source, Writes(a, s)
  PROVE  crossed' \subseteq Source /\ crossed \subseteq crossed' /\ crossed' \subseteq crossed \cup {s}
BY DEF Writes, IngestionTypeOK

LEMMA DropTypes ==
  ASSUME IngestionTypeOK, Sound, NEW a \in Actor, Drop(a)
  PROVE  IngestionTypeOK' /\ AllShaped'
<1>1. PICK s \in Source :
         /\ job' \in [Actor -> Job] /\ Others(a) /\ Shaped(job'[a])
         /\ store' = Replaced(s) /\ torn' = torn \ {s} /\ raced' = raced \ {s}
         /\ crossed' = IF Busy(a, s) THEN crossed \cup {s} ELSE crossed \ {s}
  BY DropEffect
<1>2. StoreTyped
  BY <1>1, ReplacedContents DEF StoreTyped
<1>3. UNCHANGED <<world, late, together, kept, contended>>
  BY DEF Drop, registering
<1>4. raced' \subseteq Source /\ torn' \subseteq Source /\ crossed' \subseteq Source
  BY <1>1 DEF IngestionTypeOK
<1>. QED BY <1>1, <1>2, <1>3, <1>4, OneShaped, CommitTypes DEF IngestionTypeOK

LEMMA AddTypes ==
  ASSUME IngestionTypeOK, Sound, NEW a \in Actor, Add(a)
  PROVE  IngestionTypeOK' /\ AllShaped'
<1>. DEFINE chunk == [text |-> job[a].text[job[a].current], model |-> job[a].model]
<1>1. /\ job' \in [Actor -> Job] /\ Others(a) /\ Shaped(job'[a])
      /\ job[a].current \in Source /\ job[a].text[job[a].current] \in Text /\ job[a].model \in Model
      /\ store' = Added(job[a].current, chunk) /\ Opens /\ Writes(a, job[a].current)
  BY AddEffect
<1>2. chunk \in Chunk
  BY <1>1 DEF Chunk
<1>3. StoreTyped
  BY <1>1, <1>2, AddedContents DEF StoreTyped, SameStore
<1>4. UNCHANGED <<world, late, together, raced, torn, kept, contended>>
  BY DEF Add, registering
<1>5. crossed' \subseteq Source
  BY <1>1, WritesTypes
<1>. QED BY <1>1, <1>3, <1>4, <1>5, OneShaped, CommitTypes DEF IngestionTypeOK

LEMMA LabelTypes ==
  ASSUME IngestionTypeOK, Sound, NEW a \in Actor, Label(a)
  PROVE  IngestionTypeOK' /\ AllShaped'
<1>. DEFINE s == job[a].current
<1>1. /\ job' \in [Actor -> Job] /\ Others(a) /\ Shaped(job'[a]) /\ s \in Source
      /\ store' = Hashed(s, job[a].hash[s])
      /\ raced' = (IF s \in job[a].changed THEN raced \cup {s} ELSE raced)
      /\ Opens /\ Writes(a, s)
  BY LabelEffect
<1>2. job[a].hash[s] \in Content \cup {None}
  BY <1>1, JobNow, JobFields
<1>3. StoreTyped
  BY <1>1, <1>2, HashedContents DEF StoreTyped, SameStore
<1>4. UNCHANGED <<world, late, together, torn, kept, contended>>
  BY DEF Label, registering
<1>5. crossed' \subseteq Source /\ raced' \subseteq Source
  BY <1>1, WritesTypes DEF IngestionTypeOK
<1>. QED BY <1>1, <1>3, <1>4, <1>5, OneShaped, CommitTypes DEF IngestionTypeOK

LEMMA EmptyTypes ==
  ASSUME IngestionTypeOK, Sound, NEW a \in Actor, Empty(a)
  PROVE  IngestionTypeOK' /\ AllShaped'
<1>1. PICK s \in Source :
         /\ job' \in [Actor -> Job] /\ Others(a) /\ Shaped(job'[a])
         /\ store' = Cleared(s) /\ Writes(a, s) /\ Opens
  BY EmptyEffect
<1>2. StoreTyped
  BY <1>1, ClearedContents DEF StoreTyped, SameStore
<1>3. UNCHANGED <<world, late, together, raced, torn, kept, contended>>
  BY DEF Empty, registering
<1>4. crossed' \subseteq Source
  BY <1>1, WritesTypes
<1>. QED BY <1>1, <1>2, <1>3, <1>4, OneShaped, CommitTypes DEF IngestionTypeOK

LEMMA ForgetTypes ==
  ASSUME IngestionTypeOK, Sound, NEW a \in Actor, Forget(a)
  PROVE  IngestionTypeOK' /\ AllShaped'
<1>1. /\ job' \in [Actor -> Job] /\ Others(a) /\ Shaped(job'[a]) /\ job[a].current \in Source
      /\ store' = Hashed(job[a].current, None) /\ Writes(a, job[a].current) /\ Opens
  BY ForgetEffect
<1>2. StoreTyped
  BY <1>1, HashedContents DEF StoreTyped, SameStore
<1>3. UNCHANGED <<world, late, together, raced, torn, kept, contended>>
  BY DEF Forget, registering
<1>4. crossed' \subseteq Source
  BY <1>1, WritesTypes
<1>. QED BY <1>1, <1>2, <1>3, <1>4, OneShaped, CommitTypes DEF IngestionTypeOK

LEMMA RecordTypes ==
  ASSUME IngestionTypeOK, Sound, NEW a \in Actor, RecordModel(a)
  PROVE  IngestionTypeOK' /\ AllShaped'
<1>1. /\ job' \in [Actor -> Job] /\ Others(a) /\ Shaped(job'[a]) /\ job[a].at = "recording"
      /\ store' = IF Opens /\ (job[a].open \/ job[a].force) THEN Identified(job[a].model) ELSE store
  BY RecordEffect
<1>2. job[a].model \in Model
  BY <1>1, JobNow DEF Shaped, Erasing, Listing
<1>3. StoreTyped
  BY <1>1, <1>2, StoreStays, IdentifiedContents DEF StoreTyped
<1>4. UNCHANGED <<world, late, together, raced, torn, crossed, kept, contended>>
  BY DEF RecordModel, history, writing, registering
<1>. QED BY <1>1, <1>3, <1>4, OneShaped, CommitTypes DEF IngestionTypeOK

(* What is written back to the manifest, and who notes it.                 *)
LEMMA WriteManifestWrites ==
  ASSUME IngestionTypeOK, Sound, NEW a \in Actor, WriteManifest(a)
  PROVE  LET j == job[a]
             adds == j.kind = "managed"
             files == j.done \cap File
             managed == IF adds THEN j.saved \cup files ELSE j.saved \ j.sources
             writes == adds \/ managed # j.saved
         IN  /\ Opens /\ managed \subseteq Source
             /\ store' = IF writes THEN Listed(managed) ELSE store
             /\ kept' = (IF adds THEN kept \cup files ELSE kept \ j.sources)
             /\ late' = (IF adds /\ Unseen(files) THEN late \cup files ELSE late)
             /\ contended' = contended \cup
                  (IF writes THEN (store.managed \ j.saved) \cup (j.saved \ store.managed)
                   ELSE store.managed \cap j.sources)
             /\ UNCHANGED <<world, writing, together>>
<1>1. job[a].saved \subseteq Source /\ job[a].done \subseteq Source
  BY JobNow, JobFields
<1>. QED BY <1>1 DEF WriteManifest, Merged, Registrable

LEMMA WriteManifestTypes ==
  ASSUME IngestionTypeOK, Sound, NEW a \in Actor, WriteManifest(a)
  PROVE  IngestionTypeOK' /\ AllShaped'
<1>. DEFINE j == job[a]
            adds == j.kind = "managed"
            files == j.done \cap File
            managed == IF adds THEN j.saved \cup files ELSE j.saved \ j.sources
            writes == adds \/ managed # j.saved
<1>1. job' \in [Actor -> Job] /\ Others(a) /\ Shaped(job'[a])
  BY WriteManifestEffect
<1>2. /\ Opens /\ managed \subseteq Source
      /\ store' = IF writes THEN Listed(managed) ELSE store
      /\ kept' = (IF adds THEN kept \cup files ELSE kept \ j.sources)
      /\ late' = (IF adds /\ Unseen(files) THEN late \cup files ELSE late)
      /\ contended' = contended \cup
           (IF writes THEN (store.managed \ j.saved) \cup (j.saved \ store.managed)
            ELSE store.managed \cap j.sources)
      /\ UNCHANGED <<world, writing, together>>
  BY WriteManifestWrites
<1>3. store.managed \subseteq Source /\ j.saved \subseteq Source /\ j.done \subseteq Source
  BY <1>2, JobNow, JobFields, ManagedNow
<1>4. StoreTyped
  BY <1>2, StoreStays, ListedContents DEF StoreTyped
<1>. HIDE DEF managed, writes
<1>5. kept' \subseteq Source /\ late' \subseteq Source /\ contended' \subseteq Source
  BY <1>2, <1>3 DEF IngestionTypeOK
<1>6. AllShaped'
  BY <1>1, OneShaped
<1>7. UNCHANGED <<disk, home, edits, jobs, faults, raced, torn, crossed, together>>
  BY <1>2 DEF world, writing
<1>. QED BY <1>1, <1>4, <1>5, <1>6, <1>7 DEF IngestionTypeOK, StoreTyped

LEMMA UnlinkTypes ==
  ASSUME IngestionTypeOK, Sound, NEW a \in Actor, Unlink(a)
  PROVE  IngestionTypeOK' /\ AllShaped'
<1>1. job' \in [Actor -> Job] /\ Others(a) /\ Shaped(job'[a])
  BY StopsEffect, IdleFacts DEF Unlink
<1>2. /\ disk' \in [Source -> Content \cup {None}]
      /\ UNCHANGED <<store, home, edits, jobs, faults, history>>
  BY DEF Unlink, IngestionTypeOK
<1>. QED BY <1>1, <1>2, OneShaped DEF IngestionTypeOK, history, writing, registering

LEMMA StopTypes ==
  ASSUME IngestionTypeOK, Sound, NEW stopped \in SUBSET Actor, StopAll(stopped)
  PROVE  IngestionTypeOK' /\ AllShaped'
<1>1. job' \in [Actor -> Job] /\ \A b \in Actor : job'[b] = IF b \in stopped THEN Idle ELSE job[b]
  BY StopAllEffect
<1>2. AllShaped'
  BY <1>1, IdleFacts DEF Sound, AllShaped
<1>3. /\ faults' = faults + 1 /\ torn' = torn \cup Half(stopped)
      /\ UNCHANGED <<disk, store, home, edits, jobs, raced, crossed, kept, late, contended, together>>
  BY DEF StopAll, registering
<1>4. Half(stopped) \subseteq Source
  BY JobNow, JobFields DEF Half, Shaped, Mid
<1>. QED BY <1>1, <1>2, <1>3, <1>4 DEF IngestionTypeOK

LEMMA WipeCutTypes ==
  ASSUME IngestionTypeOK, Sound, NEW a \in Actor, WipeCut(a)
  PROVE  IngestionTypeOK' /\ AllShaped'
<1>1. AllShaped'
  BY WipeCutEffect, IdleFacts DEF Sound, AllShaped
<1>2. contended' \subseteq Source /\ crossed' \subseteq Source /\ torn' \subseteq Source
  BY WipeCutEffect, StoreNow, StoreFields DEF IngestionTypeOK
<1>3. store' \in Store \cup {None} /\ faults' \in Nat
  BY WipeCutEffect DEF IngestionTypeOK
<1>. QED BY <1>1, <1>2, <1>3, WipeCutEffect DEF IngestionTypeOK

(***************************************************************************)
(* The steps, one by one, preserve each part of the invariant.             *)
(***************************************************************************)

Starts(a) == StartRun(a) \/ StartDelete(a) \/ StartManaged(a)
Commits(a) == CheckModel(a) \/ Wipe(a) \/ Drop(a) \/ Add(a) \/ Label(a) \/ Empty(a) \/ Forget(a)
                \/ RecordModel(a) \/ WriteManifest(a)

LEMMA StepCases ==
  ASSUME IngestionNext
  PROVE  \/ \E s \in Source : Edit(s)
         \/ \E a \in Actor : Starts(a) \/ Acquire(a) \/ Reads(a) \/ Commits(a) \/ Unlink(a) \/ WipeCut(a)
         \/ \E stopped \in SUBSET Actor : StopAll(stopped)
<1>1. ASSUME NEW a \in Actor, Ingest(a) \/ Delete(a) \/ Register(a) \/ Gone(a)
      PROVE  Starts(a) \/ Acquire(a) \/ Reads(a) \/ Commits(a) \/ Unlink(a) \/ WipeCut(a)
  BY <1>1 DEF Ingest, Delete, Register, Starts, Reads, Commits
<1>2. ASSUME NEW a \in Actor, Fails(a) PROVE \E stopped \in SUBSET Actor : StopAll(stopped)
  BY <1>2 DEF Fails
<1>3. ASSUME NEW p \in Process, Dies(p) PROVE \E stopped \in SUBSET Actor : StopAll(stopped)
  BY <1>3 DEF Dies
<1>. QED BY <1>1, <1>2, <1>3 DEF IngestionNext

LEMMA ShapesStep ==
  ASSUME IngestionTypeOK, Sound, IngestionNext
  PROVE  IngestionTypeOK' /\ AllShaped'
<1>1. ASSUME NEW a \in Actor, Starts(a) PROVE IngestionTypeOK' /\ AllShaped'
  BY <1>1, StartTypes, StartManagedTypes DEF Starts
<1>2. ASSUME NEW a \in Actor, Commits(a) PROVE IngestionTypeOK' /\ AllShaped'
  BY <1>2, CheckModelTypes, WipeTypes, DropTypes, AddTypes, LabelTypes, EmptyTypes, ForgetTypes,
     RecordTypes, WriteManifestTypes DEF Commits
<1>. QED BY <1>1, <1>2, StepCases, EditTypes, AcquireTypes, ReadsTypes, UnlinkTypes, StopTypes, WipeCutTypes

(* Where each step leaves the job of its actor.                            *)
LEMMA CommitPlaces ==
  ASSUME IngestionTypeOK, Sound, NEW a \in Actor, Commits(a)
  PROVE  /\ job' \in [Actor -> Job] /\ Others(a)
         /\ job'[a] = Idle \/ job'[a].at \in At \ {"idle", "resolved", "checking", "hashing", "extracting"}
<1>1. CASE CheckModel(a)
  BY <1>1, CheckModelEffect DEF Checked, At
<1>2. CASE Wipe(a)
  BY <1>2, WipeEffect DEF At
<1>3. CASE Drop(a)
  BY <1>3, DropEffect DEF At
<1>4. CASE Add(a)
  BY <1>4, AddEffect DEF At
<1>5. CASE Label(a)
  BY <1>5, LabelEffect DEF At
<1>6. CASE Empty(a)
  BY <1>6, EmptyEffect DEF At
<1>7. CASE Forget(a)
  BY <1>7, ForgetEffect DEF At
<1>8. CASE RecordModel(a)
  BY <1>8, RecordEffect DEF At
<1>9. CASE WriteManifest(a)
  BY <1>9, WriteManifestEffect DEF At
<1>. QED BY <1>1, <1>2, <1>3, <1>4, <1>5, <1>6, <1>7, <1>8, <1>9 DEF Commits

LEMMA CommitDisk ==
  ASSUME NEW a \in Actor, Commits(a)
  PROVE  UNCHANGED <<disk, home, faults, together>>
BY DEF Commits, CheckModel, Wipe, Drop, Add, Label, Empty, Forget, RecordModel, WriteManifest, world, history

(* What was read is on disk still, or the change was seen.                 *)
LEMMA ReadStays ==
  ASSUME Sound, NEW a \in Actor, Others(a), disk' = disk, job'[a].at # "hashing"
  PROVE  ReadIsThere'
BY DEF Sound, ReadIsThere, Others, Present

LEMMA ReadNoted ==
  ASSUME IngestionTypeOK, Sound, NEW s \in Source, \A t \in Source \ {s} : disk'[t] = disk[t],
         \A b \in Actor : \/ job'[b].at # "hashing"
                          \/ /\ Noted(job[b], job'[b])
                             /\ job[b].at = "hashing" /\ s \in job[b].todo => s \in job'[b].changed \/ disk' = disk
  PROVE  ReadIsThere'
<1>. SUFFICES ASSUME NEW b \in Actor, job'[b].at = "hashing", NEW t \in job'[b].todo
              PROVE  disk'[t] = job'[b].text[t] \/ ~Present(t)' \/ t \in job'[b].changed
  BY DEF ReadIsThere
<1>1. /\ job[b].at = "hashing" /\ t \in job[b].todo /\ job'[b].text = job[b].text
      /\ job[b].changed \subseteq job'[b].changed
      /\ s \in job[b].todo => s \in job'[b].changed \/ disk' = disk
  BY NotedFields
<1>2. disk[t] = job[b].text[t] \/ ~Present(t) \/ t \in job[b].changed
  BY <1>1 DEF Sound, ReadIsThere
<1>3. t \in Source
  BY <1>1, JobNow, JobFields
<1>. QED BY <1>1, <1>2, <1>3 DEF Present

LEMMA ReadStep ==
  ASSUME IngestionTypeOK, Sound, IngestionNext
  PROVE  ReadIsThere'
<1>1. ASSUME NEW s \in Source, Edit(s) PROVE ReadIsThere'
  BY <1>1, EditEffect, ReadNoted
<1>2. ASSUME NEW a \in Actor, StartRun(a) \/ StartDelete(a) PROVE ReadIsThere'
  <2>1. Others(a) /\ disk' = disk /\ job'[a].at # "hashing"
    BY <1>2, StartRunEffect, StartDeleteEffect DEF StartRun, StartDelete
  <2>. QED BY <2>1, ReadStays
<1>3. ASSUME NEW a \in Actor, StartManaged(a) PROVE ReadIsThere'
  <2>1. PICK s \in Source :
         /\ \A b \in Actor \ {a} : Noted(job[b], job'[b])
         /\ job'[a].at = "resolved"
         /\ s \in File => \A b \in Actor \ {a} : job[b].at = "hashing" /\ s \in job[b].todo => s \in job'[b].changed
         /\ s \in Url => disk' = disk
         /\ \A t \in Source \ {s} : disk'[t] = disk[t]
    BY <1>3, StartManagedEffect
  <2>2. s \in Source /\ (s \in File \/ s \in Url)
    BY DEF Source
  <2>. QED BY <2>1, <2>2, ReadNoted
<1>4. ASSUME NEW a \in Actor, Acquire(a) PROVE ReadIsThere'
  <2>1. Others(a) /\ disk' = disk /\ job'[a].at # "hashing"
    BY <1>4, AcquireEffect, IdleFacts DEF Acquire, world
  <2>. QED BY <2>1, ReadStays
<1>5. ASSUME NEW a \in Actor, Extract(a) PROVE ReadIsThere'
  <2>1. /\ Others(a) /\ \A s \in job'[a].todo : job'[a].text[s] = disk[s]
        /\ disk' = disk
    BY <1>5, ExtractEffect DEF Extract, world
  <2>. QED BY <2>1 DEF Sound, ReadIsThere, Others, Present
<1>6. ASSUME NEW a \in Actor, Reads(a), ~Extract(a) PROVE ReadIsThere'
  <2>1. Others(a) /\ disk' = disk
    BY <1>6, ReadsShaped, ReadsUnchanged DEF world
  <2>2. CASE Gone(a)
    <3>1. Stops(a)
      BY <2>2 DEF Gone
    <3>. QED BY <2>1, <3>1, StopsEffect, IdleFacts, ReadStays
  <2>3. CASE ~Gone(a)
    <3>1. job'[a].at # "hashing"
      BY <1>6, <2>3, IdleFacts, ClassifyEffect, HashEffect, ProceedEffect, FetchEffect, PurgeDoneEffect,
         ReadManifestEffect DEF Reads
    <3>. QED BY <2>1, <3>1, ReadStays
  <2>. QED BY <2>2, <2>3
<1>7. ASSUME NEW a \in Actor, Commits(a) PROVE ReadIsThere'
  <2>1. Others(a) /\ disk' = disk /\ job'[a].at # "hashing"
    BY <1>7, CommitPlaces, CommitDisk, IdleFacts
  <2>. QED BY <2>1, ReadStays
<1>8. ASSUME NEW a \in Actor, Unlink(a) PROVE ReadIsThere'
  <2>1. Others(a) /\ job'[a].at # "hashing" /\ \A s \in Source : disk'[s] = None \/ disk'[s] = disk[s]
    BY <1>8, StopsEffect, IdleFacts DEF Unlink
  <2>2. \A b \in Actor : job[b].todo \subseteq Source
    BY JobNow, JobFields
  <2>. QED BY <2>1, <2>2 DEF Sound, ReadIsThere, Others, Present
<1>9. ASSUME NEW stopped \in SUBSET Actor, StopAll(stopped) PROVE ReadIsThere'
  <2>1. disk' = disk /\ \A b \in Actor : job'[b] = IF b \in stopped THEN Idle ELSE job[b]
    BY <1>9, StopAllEffect DEF StopAll
  <2>. QED BY <2>1, IdleFacts DEF Sound, ReadIsThere, Present
<1>10. ASSUME NEW a \in Actor, WipeCut(a) PROVE ReadIsThere'
  BY <1>10, WipeCutEffect, IdleFacts DEF Sound, ReadIsThere, Present
<1>. QED BY <1>1, <1>2, <1>3, <1>4, <1>5, <1>6, <1>7, <1>8, <1>9, <1>10, StepCases DEF Starts

(* A store that does not open is bare.                                     *)
LEMMA ClosedStays == ASSUME Sound, store' = store, torn \subseteq torn' PROVE ClosedIsBare'
BY DEF Sound, ClosedIsBare, Exists, Opens

LEMMA ClosedOpens == ASSUME Opens' PROVE ClosedIsBare'
BY DEF ClosedIsBare

LEMMA ClosedStep ==
  ASSUME IngestionTypeOK, Sound, IngestionNext
  PROVE  ClosedIsBare'
<1>1. ASSUME NEW a \in Actor, CheckModel(a) PROVE ClosedIsBare'
  <2>1. store' = store \/ (Opens /\ store' = Identified(job[a].model) /\ job[a].at = "checking")
    BY <1>1, CheckModelEffect
  <2>2. CASE store' = store
    BY <1>1, <2>2, ClosedStays DEF CheckModel, history, writing
  <2>3. CASE Opens /\ store' = Identified(job[a].model) /\ job[a].at = "checking"
    <3>1. job[a].model \in Model
      BY <2>3, JobNow DEF Shaped, Erasing, Listing
    <3>2. Opens'
      BY <2>3, <3>1, IdentifiedContents DEF SameContents
    <3>. QED BY <3>2, ClosedOpens
  <2>. QED BY <2>1, <2>2, <2>3
<1>2. ASSUME NEW a \in Actor, Wipe(a) PROVE ClosedIsBare'
  <2>1. store' = None \/ store' = Fresh(FALSE)
    BY <1>2, WipeEffect
  <2>. QED BY <2>1, FreshStore DEF ClosedIsBare, Exists
<1>3. ASSUME NEW a \in Actor, Drop(a) PROVE ClosedIsBare'
  BY <1>3, DropEffect, ReplacedContents, ClosedOpens
<1>4. ASSUME NEW a \in Actor, Add(a) PROVE ClosedIsBare'
  <2>1. [text |-> job[a].text[job[a].current], model |-> job[a].model] \in Chunk
    BY <1>4, AddEffect DEF Chunk
  <2>. QED BY <1>4, <2>1, AddEffect, AddedContents, ClosedOpens DEF SameStore
<1>5. ASSUME NEW a \in Actor, Label(a) PROVE ClosedIsBare'
  <2>1. job[a].current \in Source /\ job[a].hash[job[a].current] \in Content \cup {None}
    BY <1>5, LabelEffect, JobNow, JobFields
  <2>. QED BY <1>5, <2>1, LabelEffect, HashedContents, ClosedOpens DEF SameStore
<1>6. ASSUME NEW a \in Actor, Empty(a) PROVE ClosedIsBare'
  BY <1>6, EmptyEffect, ClearedContents, ClosedOpens DEF SameStore
<1>7. ASSUME NEW a \in Actor, Forget(a) PROVE ClosedIsBare'
  BY <1>7, ForgetEffect, HashedContents, ClosedOpens DEF SameStore
<1>8. ASSUME NEW a \in Actor, RecordModel(a) PROVE ClosedIsBare'
  <2>1. store' = store \/ (Opens /\ store' = Identified(job[a].model) /\ job[a].at = "recording")
    BY <1>8, RecordEffect
  <2>2. CASE store' = store
    BY <1>8, <2>2, ClosedStays DEF RecordModel, history, writing
  <2>3. CASE Opens /\ store' = Identified(job[a].model) /\ job[a].at = "recording"
    <3>1. job[a].model \in Model
      BY <2>3, JobNow DEF Shaped, Erasing, Listing
    <3>2. Opens'
      BY <2>3, <3>1, IdentifiedContents DEF SameContents
    <3>. QED BY <3>2, ClosedOpens
  <2>. QED BY <2>1, <2>2, <2>3
<1>9. ASSUME NEW a \in Actor, WriteManifest(a) PROVE ClosedIsBare'
  <2>. DEFINE j == job[a]
              managed == IF j.kind = "managed" THEN j.saved \cup (j.done \cap File) ELSE j.saved \ j.sources
  <2>1. Opens /\ managed \subseteq Source /\ (store' = Listed(managed) \/ store' = store)
    BY <1>9, WriteManifestWrites
  <2>. HIDE DEF managed
  <2>2. Opens'
    BY <2>1, ListedContents, KeptContents DEF SameContents
  <2>. QED BY <2>2, ClosedOpens
<1>10. CASE store' = store /\ torn \subseteq torn'
  BY <1>10, ClosedStays
<1>11. \/ store' = store /\ torn \subseteq torn'
       \/ \E a \in Actor : Commits(a) \/ WipeCut(a)
  <2>1. ASSUME NEW a \in Actor, Starts(a) \/ Acquire(a) \/ Reads(a) \/ Unlink(a)
        PROVE  store' = store /\ torn' = torn
    BY <2>1, ReadsUnchanged
       DEF Starts, StartRun, StartDelete, StartManaged, Acquire, Unlink, history, writing
  <2>2. ASSUME NEW stopped, StopAll(stopped) PROVE store' = store /\ torn \subseteq torn'
    BY <2>2 DEF StopAll
  <2>3. ASSUME NEW s, Edit(s) PROVE store' = store /\ torn' = torn
    BY <2>3 DEF Edit, history, writing
  <2>. QED BY <2>1, <2>2, <2>3, StepCases
<1>12. ASSUME NEW a \in Actor, WipeCut(a) PROVE ClosedIsBare'
  BY <1>12, WipeCutEffect DEF ClosedIsBare, Exists
<1>. QED BY <1>1, <1>2, <1>3, <1>4, <1>5, <1>6, <1>7, <1>8, <1>9, <1>10, <1>11, <1>12 DEF Commits

(* Only a fault tears a source.                                            *)
LEMMA TornStep ==
  ASSUME IngestionTypeOK, Sound, IngestionNext
  PROVE  TornByFault'
<1>1. CASE faults' = faults /\ torn' \subseteq torn
  BY <1>1 DEF Sound, TornByFault
<1>2. CASE faults' = faults + 1
  BY <1>2 DEF IngestionTypeOK, TornByFault
<1>3. ASSUME NEW a \in Actor, Starts(a) \/ Acquire(a) \/ Reads(a) \/ Commits(a) \/ Unlink(a)
      PROVE  faults' = faults /\ torn' \subseteq torn
  <2>1. CASE Reads(a)
    BY <2>1, ReadsUnchanged DEF world, history, writing
  <2>2. CASE Commits(a)
    <3>1. faults' = faults
      BY <2>2, CommitDisk
    <3>2. torn' \subseteq torn
      BY <2>2 DEF Commits, CheckModel, Wipe, Drop, Add, Label, Empty, Forget, RecordModel, WriteManifest,
                  history, writing
    <3>. QED BY <3>1, <3>2
  <2>. QED BY <1>3, <2>1, <2>2
           DEF Starts, StartRun, StartDelete, StartManaged, Acquire, Unlink, world, history, writing
<1>4. ASSUME NEW stopped, StopAll(stopped) PROVE faults' = faults + 1
  BY <1>4 DEF StopAll
<1>5. ASSUME NEW s, Edit(s) PROVE faults' = faults /\ torn' = torn
  BY <1>5 DEF Edit, history, writing
<1>6. ASSUME NEW a, WipeCut(a) PROVE faults' = faults + 1
  BY <1>6 DEF WipeCut
<1>. QED BY <1>1, <1>2, <1>3, <1>4, <1>5, <1>6, StepCases

(* One ingest at a time, but of two processes.                             *)
LEMMA NothingBegins ==
  ASSUME IngestionTypeOK, Sound, NEW a \in Actor, Reads(a) \/ Commits(a)
  PROVE  Others(a) /\ (Ingesting(a)' => Ingesting(a))
<1>1. CASE Reads(a)
  <2>1. Others(a)
    BY <1>1, ReadsShaped
  <2>2. CASE Gone(a)
    <3>1. Stops(a)
      BY <2>2 DEF Gone
    <3>. QED BY <2>1, <3>1, StopsEffect, IdleFacts DEF Ingesting
  <2>3. CASE ~Gone(a)
    <3>1. \/ job'[a] = Idle \/ job'[a].at \in Listing
          \/ job'[a].kind = job[a].kind /\ job[a].at \in {"classifying", "extracting", "hashing", "storing", "fetching", "purging"}
      BY <1>1, <2>3, ClassifyEffect, ExtractEffect, HashEffect, ProceedEffect, FetchEffect, PurgeDoneEffect,
         ReadManifestEffect DEF Reads, SameBut, Fields, Listing
    <3>. QED BY <2>1, <3>1, IdleFacts DEF Ingesting, Listing
  <2>. QED BY <2>2, <2>3
<1>2. CASE Commits(a)
  <2>1. Others(a)
    BY <1>2, CommitPlaces
  <2>2. CASE CheckModel(a)
    BY <2>1, <2>2, CheckModelEffect, IdleFacts DEF Checked, SameBut, Fields, Ingesting
  <2>3. CASE Wipe(a)
    BY <2>1, <2>3, WipeEffect, IdleFacts DEF SameBut, Fields, Ingesting
  <2>4. CASE Drop(a)
    BY <2>1, <2>4, DropEffect DEF SameBut, Fields, Ingesting
  <2>5. CASE Add(a)
    BY <2>1, <2>5, AddEffect DEF SameBut, Fields, Ingesting
  <2>6. CASE Label(a)
    BY <2>1, <2>6, LabelEffect DEF SameBut, Fields, Ingesting
  <2>7. CASE Empty(a)
    BY <2>1, <2>7, EmptyEffect DEF SameBut, Fields, Ingesting
  <2>8. CASE Forget(a)
    BY <2>1, <2>8, ForgetEffect DEF SameBut, Fields, Ingesting
  <2>9. CASE RecordModel(a)
    BY <2>1, <2>9, RecordEffect, IdleFacts DEF Ingesting
  <2>10. CASE WriteManifest(a)
    <3>1. Shaped(job'[a]) /\ (job'[a] = Idle \/ job'[a].at = "unlinking")
      BY <2>10, WriteManifestEffect
    <3>2. job'[a] \in Job
      BY <1>2, CommitPlaces
    <3>. QED BY <2>1, <3>1, <3>2, IdleFacts, JobFields DEF Shaped, Kind, Ingesting
  <2>. QED BY <1>2, <2>2, <2>3, <2>4, <2>5, <2>6, <2>7, <2>8, <2>9, <2>10 DEF Commits
<1>. QED BY <1>1, <1>2

LEMMA LockStays ==
  ASSUME Sound, together' = together, \A b \in Actor : Ingesting(b)' => Ingesting(b)
  PROVE  OneAtATime'
BY DEF Sound, OneAtATime

LEMMA LockStep ==
  ASSUME IngestionTypeOK, Sound, IngestionNext
  PROVE  OneAtATime'
<1>1. ASSUME NEW s \in Source, Edit(s) PROVE OneAtATime'
  <2>1. together' = together /\ \A b \in Actor : Noted(job[b], job'[b])
    BY <1>1, EditEffect DEF Edit, history
  <2>. QED BY <2>1, NotedFields, LockStays DEF Ingesting
<1>2. ASSUME NEW a \in Actor, StartRun(a) \/ StartDelete(a) PROVE OneAtATime'
  <2>1. together' = together
    BY <1>2 DEF StartRun, StartDelete, history
  <2>2. Others(a) /\ (job'[a].at = "resolved" \/ job'[a].kind = "delete")
    BY <1>2, StartRunEffect, StartDeleteEffect
  <2>. QED BY <2>1, <2>2, LockStays DEF Others, Ingesting
<1>3. ASSUME NEW a \in Actor, StartManaged(a) PROVE OneAtATime'
  <2>1. job'[a].at = "resolved" /\ \A b \in Actor \ {a} : Noted(job[b], job'[b])
    BY <1>3, StartManagedEffect
  <2>2. together' = together
    BY <1>3 DEF StartManaged
  <2>. QED BY <2>1, <2>2, NotedFields, LockStays DEF Ingesting
<1>4. ASSUME NEW a \in Actor, Acquire(a) PROVE OneAtATime'
  <2>1. Others(a)
    BY <1>4, AcquireEffect
  <2>2. CASE job'[a] = Idle /\ together' = together
    BY <2>1, <2>2, IdleFacts, LockStays DEF Others, Ingesting
  <2>3. CASE ~Locked(a) /\ together' = (together \/ \E b \in Actor \ {a} : Ingesting(b) /\ home[b] # home[a])
    <3>. SUFFICES ASSUME ~together' PROVE OneAtATime'
      BY DEF OneAtATime
    <3>1. ~together /\ \A b \in Actor \ {a} : ~Ingesting(b)
      BY <2>3 DEF Locked
    <3>2. \A b \in Actor \ {a} : ~Ingesting(b)'
      BY <2>1, <3>1 DEF Others, Ingesting
    <3>. QED BY <3>2 DEF OneAtATime
  <2>. QED BY <1>4, <2>2, <2>3, AcquireEffect
<1>5. ASSUME NEW a \in Actor, Reads(a) \/ Commits(a) PROVE OneAtATime'
  <2>1. Others(a) /\ (Ingesting(a)' => Ingesting(a)) /\ together' = together
    BY <1>5, NothingBegins, ReadsUnchanged, CommitDisk DEF history
  <2>. QED BY <2>1, LockStays DEF Others, Ingesting
<1>6. ASSUME NEW a \in Actor, Unlink(a) PROVE OneAtATime'
  <2>1. Others(a) /\ job'[a] = Idle /\ together' = together
    BY <1>6, StopsEffect DEF Unlink, history
  <2>. QED BY <2>1, IdleFacts, LockStays DEF Others, Ingesting
<1>7. ASSUME NEW stopped \in SUBSET Actor, StopAll(stopped) PROVE OneAtATime'
  <2>1. together' = together /\ \A b \in Actor : job'[b] = IF b \in stopped THEN Idle ELSE job[b]
    BY <1>7, StopAllEffect DEF StopAll
  <2>. QED BY <2>1, IdleFacts, LockStays DEF Ingesting
<1>8. ASSUME NEW a \in Actor, WipeCut(a) PROVE OneAtATime'
  BY <1>8, WipeCutEffect, IdleFacts, LockStays DEF Ingesting
<1>. QED BY <1>1, <1>2, <1>3, <1>4, <1>5, <1>6, <1>7, <1>8, StepCases DEF Starts

(***************************************************************************)
(* The hash of a source and the commits of replace_source.                 *)
(***************************************************************************)

Tells(s) == store.hash[s] # None /\ (\A a \in Actor : job[a].current # s) => Chunks(s) = {store.hash[s]}

LEMMA TellsAll == HashTellsContent <=> (Exists => \A s \in Source \ (raced \cup torn \cup crossed) : Tells(s))
BY DEF HashTellsContent, Tells, Chunks

LEMMA TellsNow ==
  ASSUME Sound, Exists, NEW s \in Source \ (raced \cup torn \cup crossed)
  PROVE  Tells(s)
BY TellsAll DEF Sound

LEMMA HalfNow ==
  ASSUME Sound, NEW a \in Actor, job[a].current \in Source \ crossed
  PROVE  AloneOn(a, job[a].current)
BY DEF Sound, HalfWritten

LEMMA MidCurrent ==
  ASSUME IngestionTypeOK, Sound, NEW a \in Actor
  PROVE  job[a].current \in Source \cup {None} /\ (job[a].current # None <=> job[a].at \in Mid)
BY JobNow, JobFields DEF Shaped

LEMMA EmptyTells ==
  ASSUME Exists' => \A s \in Source \ torn' : store'.hash[s] = None
  PROVE  HashTellsContent'
BY DEF HashTellsContent

LEMMA ClosedTells ==
  ASSUME ClosedIsBare, Exists, ~Opens
  PROVE  \A s \in Source \ torn : store.hash[s] = None
BY DEF ClosedIsBare

(* A job keeps the source it is writing, or lets go of it.                 *)
Holds(b) == job'[b].current = job[b].current /\
            (job[b].current # None => job'[b].at = job[b].at /\ job'[b].text = job[b].text)
LetsGo(b) == job'[b].current = None /\ (job[b].current \in torn' \/ ~Opens)

LEMMA ContentsStay ==
  ASSUME IngestionTypeOK, Sound, SameContents, raced' = raced, crossed' = crossed, torn \subseteq torn',
         \A b \in Actor : Holds(b) \/ LetsGo(b)
  PROVE  HashTellsContent' /\ HalfWritten'
<1>1. HashTellsContent'
  <2>1. CASE ~Opens
    <3>1. Exists => \A s \in Source \ torn : store.hash[s] = None
      BY <2>1, ClosedTells DEF Sound
    <3>. QED BY <3>1, EmptyTells DEF SameContents
  <2>2. CASE Opens
    <3>. SUFFICES ASSUME Exists', NEW s \in Source, s \notin (raced \cup torn \cup crossed)',
                         store'.hash[s] # None, \A b \in Actor : job'[b].current # s
                  PROVE  {c.text : c \in store'.chunks[s]} = {store'.hash[s]}
      BY DEF HashTellsContent
    <3>1. Exists /\ store'.chunks = store.chunks /\ store'.hash = store.hash
      BY DEF SameContents
    <3>2. s \notin raced \cup torn \cup crossed /\ \A b \in Actor : job[b].current # s
      BY <2>2 DEF Holds, LetsGo
    <3>. QED BY <3>1, <3>2 DEF Sound, HashTellsContent
  <2>. QED BY <2>1, <2>2
<1>2. HalfWritten'
  <2>. SUFFICES ASSUME NEW b \in Actor, NEW r \in Source \ crossed', r = job'[b].current
                PROVE  AloneOn(b, r)'
    BY DEF HalfWritten
  <2>1. /\ job[b].current = job'[b].current /\ job'[b].at = job[b].at /\ job'[b].text = job[b].text
    BY DEF Holds, LetsGo
  <2>2. AloneOn(b, r)
    BY <2>1, HalfNow
  <2>3. Opens /\ Opens' /\ store'.chunks = store.chunks
    BY <2>2 DEF AloneOn, SameContents, Opens
  <2>4. \A c \in Actor \ {b} : job'[c].current # job'[b].current
    BY <2>1, <2>2, MidCurrent DEF AloneOn, Holds, LetsGo
  <2>. QED BY <2>1, <2>2, <2>3, <2>4 DEF AloneOn, Chunks
<1>. QED BY <1>1, <1>2

(* A job writes one source, and the others are as they were.               *)
Beside(s) == \A r \in Source \ {s} :
  /\ (r \in raced' <=> r \in raced) /\ (r \in torn' <=> r \in torn) /\ (r \in crossed' <=> r \in crossed)
  /\ Opens => store'.hash[r] = store.hash[r] /\ store'.chunks[r] = store.chunks[r]
  /\ ~Opens => r \in torn' \/ store'.hash[r] = None

LEMMA ContentsWritten ==
  ASSUME IngestionTypeOK, Sound, NEW a \in Actor, NEW s \in Source, Others(a), Exists', Opens', Beside(s),
         job[a].current \in {None, s}, job'[a].current \in {None, s},
         s \notin (raced \cup torn \cup crossed)' => Tells(s)',
         job'[a].current = s /\ s \notin crossed' => AloneOn(a, s)',
         \A b \in Actor \ {a} : job[b].current = s => s \in crossed'
  PROVE  HashTellsContent' /\ HalfWritten'
<1>1. HashTellsContent'
  <2>1. ASSUME NEW r \in Source, r # s, r \notin (raced \cup torn \cup crossed)' PROVE Tells(r)'
    <3>. SUFFICES ASSUME Opens, store'.hash[r] # None, \A b \in Actor : job'[b].current # r
                  PROVE  Chunks(r)' = {store'.hash[r]}
      BY <2>1 DEF Tells, Beside
    <3>1. /\ r \notin raced \cup torn \cup crossed
          /\ store'.hash[r] = store.hash[r] /\ store'.chunks[r] = store.chunks[r]
      BY <2>1 DEF Beside
    <3>2. \A b \in Actor : job[b].current # r
      BY <2>1 DEF Others
    <3>3. Tells(r)
      BY <3>1, TellsNow DEF Opens
    <3>. QED BY <3>1, <3>2, <3>3 DEF Tells, Chunks
  <2>2. \A r \in Source \ (raced \cup torn \cup crossed)' : Tells(r)'
    BY <2>1
  <2>. QED BY <2>2 DEF HashTellsContent, Tells, Chunks
<1>2. HalfWritten'
  <2>. SUFFICES ASSUME NEW b \in Actor, NEW r \in Source \ crossed', r = job'[b].current
                PROVE  AloneOn(b, r)'
    BY DEF HalfWritten
  <2>1. CASE b = a
    BY <2>1
  <2>2. CASE b # a
    <3>1. job'[b] = job[b] /\ job[b].current = r /\ r # s /\ r \notin crossed
      BY <2>2 DEF Others, Beside
    <3>2. AloneOn(b, r)
      BY <3>1, HalfNow
    <3>3. store'.chunks[r] = store.chunks[r]
      BY <3>1, <3>2 DEF AloneOn, Beside
    <3>4. \A c \in Actor \ {b} : job'[c].current # r
      BY <3>1, <3>2 DEF AloneOn, Others
    <3>. QED BY <3>1, <3>2, <3>3, <3>4 DEF AloneOn, Chunks
  <2>. QED BY <2>1, <2>2
<1>. QED BY <1>1, <1>2

(* Another job that writes s is busy with it.                              *)
LEMMA BusyCurrent ==
  ASSUME IngestionTypeOK, Sound, NEW a \in Actor, NEW b \in Actor \ {a}, NEW s \in Source, job[b].current = s
  PROVE  Busy(a, s)
BY MidCurrent DEF Busy, Mid

LEMMA DropContents ==
  ASSUME IngestionTypeOK, Sound, NEW a \in Actor, Drop(a)
  PROVE  HashTellsContent' /\ HalfWritten'
<1>1. PICK s \in Source :
         /\ Others(a) /\ job[a].at = "storing" /\ job'[a].at = "dropped" /\ job'[a].current = s
         /\ store' = Replaced(s) /\ torn' = torn \ {s} /\ raced' = raced \ {s}
         /\ crossed' = IF Busy(a, s) THEN crossed \cup {s} ELSE crossed \ {s}
  BY DropEffect
<1>2. /\ Exists' /\ Opens' /\ store'.chunks[s] = {}
      /\ Opens => /\ store'.hash = store.hash /\ \A r \in Source \ {s} : store'.chunks[r] = store.chunks[r]
      /\ ~Opens => \A r \in Source \ torn : store'.hash[r] = None
  BY <1>1, ReplacedContents, ClosedTells DEF Sound, Opens
<1>3. Beside(s)
  BY <1>1, <1>2 DEF Beside
<1>4. job[a].current = None
  BY <1>1, MidCurrent DEF Mid
<1>5. \A b \in Actor \ {a} : job[b].current = s => s \in crossed'
  BY <1>1, BusyCurrent
<1>6. s \notin crossed' => AloneOn(a, s)'
  BY <1>1, <1>2, <1>5 DEF AloneOn, Others
<1>7. Tells(s)'
  BY <1>1 DEF Tells
<1>. QED BY <1>1, <1>2, <1>3, <1>4, <1>5, <1>6, <1>7, ContentsWritten

LEMMA WritesCrossed ==
  ASSUME IngestionTypeOK, NEW a \in Actor, NEW s \in Source, Writes(a, s)
  PROVE  /\ \A r \in Source \ {s} : r \in crossed' <=> r \in crossed
         /\ s \in crossed => s \in crossed'
         /\ Busy(a, s) => s \in crossed'
BY DEF Writes

(* A source that another job writes too is crossed.                        *)
LEMMA OthersCross ==
  ASSUME IngestionTypeOK, Sound, NEW a \in Actor, NEW s \in Source, Writes(a, s)
  PROVE  \A b \in Actor \ {a} : job[b].current = s => s \in crossed'
BY BusyCurrent, WritesCrossed

LEMMA AddContents ==
  ASSUME IngestionTypeOK, Sound, NEW a \in Actor, Add(a)
  PROVE  HashTellsContent' /\ HalfWritten'
<1>. SUFFICES ASSUME NEW s, s = job[a].current PROVE HashTellsContent' /\ HalfWritten'
  OBVIOUS
<1>. DEFINE chunk == [text |-> job[a].text[s], model |-> job[a].model]
<1>1. /\ Others(a) /\ job[a].at = "dropped" /\ job'[a].at = "added" /\ SameBut(job'[a], job[a], {"at"})
      /\ s \in Source /\ job[a].text[s] \in Text /\ job[a].model \in Model
      /\ store' = Added(s, chunk) /\ Opens /\ Writes(a, s)
  BY AddEffect
<1>2. chunk \in Chunk
  BY <1>1 DEF Chunk
<1>3. /\ Exists' /\ Opens' /\ store'.hash = store.hash /\ store'.chunks[s] = store.chunks[s] \cup {chunk}
      /\ \A r \in Source \ {s} : store'.chunks[r] = store.chunks[r]
  BY <1>1, <1>2, AddedContents DEF SameStore
<1>4. raced' = raced /\ torn' = torn
  BY DEF Add
<1>5. Beside(s)
  BY <1>1, <1>3, <1>4, WritesCrossed DEF Beside
<1>6. job'[a].current = s /\ job'[a].text = job[a].text
  BY <1>1 DEF SameBut, Fields
<1>7. s \notin crossed' => AloneOn(a, s)'
  <2>. SUFFICES ASSUME s \notin crossed' PROVE AloneOn(a, s)'
    OBVIOUS
  <2>1. AloneOn(a, s)
    BY <1>1, WritesCrossed, HalfNow
  <2>2. store'.chunks[s] = {chunk}
    BY <1>1, <1>3, <2>1 DEF AloneOn
  <2>3. Chunks(s)' = {job'[a].text[s]}
    BY <1>6, <2>2 DEF Chunks
  <2>. QED BY <1>1, <1>3, <1>6, <2>1, <2>3 DEF AloneOn, Others
<1>8. Tells(s)'
  BY <1>6 DEF Tells
<1>. QED BY <1>1, <1>3, <1>5, <1>6, <1>7, <1>8, OthersCross, ContentsWritten

LEMMA LabelContents ==
  ASSUME IngestionTypeOK, Sound, NEW a \in Actor, Label(a)
  PROVE  HashTellsContent' /\ HalfWritten'
<1>. SUFFICES ASSUME NEW s, s = job[a].current PROVE HashTellsContent' /\ HalfWritten'
  OBVIOUS
<1>1. /\ Others(a) /\ job[a].at = "added" /\ job'[a].current = None
      /\ s \in Source /\ (job[a].hash[s] = job[a].text[s] \/ s \in job[a].changed)
      /\ store' = Hashed(s, job[a].hash[s]) /\ Opens /\ Writes(a, s)
      /\ raced' = (IF s \in job[a].changed THEN raced \cup {s} ELSE raced)
  BY LabelEffect
<1>2. job[a].hash[s] \in Content \cup {None}
  BY <1>1, JobNow, JobFields
<1>3. /\ Exists' /\ Opens' /\ store'.chunks = store.chunks /\ store'.hash[s] = job[a].hash[s]
      /\ \A r \in Source \ {s} : store'.hash[r] = store.hash[r]
  BY <1>1, <1>2, HashedContents DEF SameStore
<1>4. torn' = torn
  BY DEF Label
<1>5. Beside(s)
  BY <1>1, <1>3, <1>4, WritesCrossed DEF Beside
<1>6. s \notin (raced \cup torn \cup crossed)' => Tells(s)'
  <2>. SUFFICES ASSUME s \notin raced', s \notin crossed' PROVE Tells(s)'
    OBVIOUS
  <2>1. AloneOn(a, s)
    BY <1>1, WritesCrossed, HalfNow
  <2>2. Chunks(s) = {job[a].hash[s]}
    BY <1>1, <2>1 DEF AloneOn
  <2>. QED BY <1>3, <2>2 DEF Tells, Chunks
<1>7. job[a].current \in {None, s} /\ job'[a].current \in {None, s} /\ job'[a].current # s
  BY <1>1
<1>. QED BY <1>1, <1>3, <1>5, <1>6, <1>7, OthersCross, ContentsWritten

LEMMA EmptyContents ==
  ASSUME IngestionTypeOK, Sound, NEW a \in Actor, Empty(a)
  PROVE  HashTellsContent' /\ HalfWritten'
<1>1. PICK s \in Source :
         /\ Others(a) /\ job[a].at = "purging" /\ job'[a].at = "emptied" /\ job'[a].current = s
         /\ store' = Cleared(s) /\ Writes(a, s) /\ Opens
  BY EmptyEffect
<1>2. /\ Exists' /\ Opens' /\ store'.hash = store.hash /\ store'.chunks[s] = {}
      /\ \A r \in Source \ {s} : store'.chunks[r] = store.chunks[r]
  BY <1>1, ClearedContents DEF SameStore
<1>3. raced' = raced /\ torn' = torn
  BY DEF Empty
<1>4. Beside(s)
  BY <1>1, <1>2, <1>3, WritesCrossed DEF Beside
<1>5. job[a].current = None
  BY <1>1, MidCurrent DEF Mid
<1>6. \A b \in Actor \ {a} : job[b].current = s => s \in crossed'
  BY <1>1, OthersCross
<1>7. s \notin crossed' => AloneOn(a, s)'
  BY <1>1, <1>2, <1>6 DEF AloneOn, Others
<1>8. Tells(s)'
  BY <1>1 DEF Tells
<1>. QED BY <1>1, <1>2, <1>4, <1>5, <1>6, <1>7, <1>8, ContentsWritten

LEMMA ForgetContents ==
  ASSUME IngestionTypeOK, Sound, NEW a \in Actor, Forget(a)
  PROVE  HashTellsContent' /\ HalfWritten'
<1>. SUFFICES ASSUME NEW s, s = job[a].current PROVE HashTellsContent' /\ HalfWritten'
  OBVIOUS
<1>1. /\ Others(a) /\ job[a].at = "emptied" /\ job'[a].current = None /\ s \in Source
      /\ store' = Hashed(s, None) /\ Writes(a, s) /\ Opens
  BY ForgetEffect
<1>2. /\ Exists' /\ Opens' /\ store'.chunks = store.chunks /\ store'.hash[s] = None
      /\ \A r \in Source \ {s} : store'.hash[r] = store.hash[r]
  BY <1>1, HashedContents DEF SameStore
<1>3. raced' = raced /\ torn' = torn
  BY DEF Forget
<1>4. Beside(s)
  BY <1>1, <1>2, <1>3, WritesCrossed DEF Beside
<1>5. Tells(s)'
  BY <1>2 DEF Tells
<1>6. job[a].current \in {None, s} /\ job'[a].current \in {None, s} /\ job'[a].current # s
  BY <1>1
<1>. QED BY <1>1, <1>2, <1>4, <1>5, <1>6, OthersCross, ContentsWritten

LEMMA WipeContents ==
  ASSUME IngestionTypeOK, Sound, NEW a \in Actor, Wipe(a)
  PROVE  HashTellsContent' /\ HalfWritten'
<1>1. /\ Others(a) /\ Shaped(job'[a]) /\ job'[a].at \notin Mid /\ (store' = None \/ store' = Fresh(FALSE))
      /\ crossed' = crossed \cup {s \in Source : Busy(a, s)}
  BY WipeEffect, IdleFacts DEF Wipe, Mid
<1>2. HashTellsContent'
  <2>1. Exists' => \A s \in Source : store'.hash[s] = None
    BY <1>1, FreshContents DEF Exists
  <2>. QED BY <2>1, EmptyTells
<1>3. HalfWritten'
  <2>1. job'[a].current = None
    BY <1>1 DEF Shaped
  <2>2. \A b \in Actor \ {a} : job'[b].current \in Source => job'[b].current \in crossed'
    BY <1>1, BusyCurrent DEF Others
  <2>. QED BY <2>1, <2>2 DEF HalfWritten
<1>. QED BY <1>2, <1>3

LEMMA WipeCutContents ==
  ASSUME IngestionTypeOK, Sound, NEW a \in Actor, WipeCut(a)
  PROVE  HashTellsContent' /\ HalfWritten'
<1>1. HashTellsContent'
  BY WipeCutEffect DEF HashTellsContent
<1>2. ASSUME NEW b \in Actor, job'[b].current \in Source PROVE job'[b].current \in crossed'
  BY <1>2, WipeCutEffect, IdleFacts, BusyCurrent DEF IngestionTypeOK
<1>. QED BY <1>1, <1>2 DEF HalfWritten

(* A job that is not writing a source, before or after, holds what it has. *)
LEMMA NotWriting ==
  ASSUME NEW b, job[b].current = None, job'[b].current = None
  PROVE  Holds(b)
BY DEF Holds

LEMMA OthersHold == ASSUME NEW a \in Actor, Others(a) PROVE \A b \in Actor \ {a} : Holds(b)
BY DEF Others, Holds

LEMMA NotedHolds == ASSUME NEW b, Noted(job[b], job'[b]) PROVE Holds(b)
BY NotedFields DEF Holds

(* The steps that neither write a source nor let go of one.                *)
LEMMA QuietContents ==
  ASSUME IngestionTypeOK, Sound, SameContents, UNCHANGED writing, NEW a \in Actor, Others(a),
         job[a].current = None, job'[a].current = None
  PROVE  HashTellsContent' /\ HalfWritten'
<1>1. raced' = raced /\ crossed' = crossed /\ torn' = torn
  BY DEF writing
<1>. QED BY <1>1, NotWriting, OthersHold, ContentsStay

LEMMA BegunFromNone == ASSUME NEW a \in Actor, Begins(a) PROVE job[a].current = None /\ job[a].at = "idle"
BY IdleFacts DEF Begins

(* A job between the reads and the commits is not writing.                 *)
LEMMA NoneCurrent ==
  ASSUME IngestionTypeOK, Sound, NEW a \in Actor, job[a].at \notin Mid
  PROVE  job[a].current = None
BY MidCurrent

LEMMA ShapedCurrent == ASSUME NEW j, Shaped(j), j.at \notin Mid PROVE j.current = None
BY DEF Shaped

LEMMA GoneContents ==
  ASSUME IngestionTypeOK, Sound, NEW a \in Actor, Gone(a)
  PROVE  HashTellsContent' /\ HalfWritten'
<1>1. Stops(a) /\ ~Opens /\ UNCHANGED <<world, store, history>>
  BY DEF Gone
<1>2. Others(a) /\ job'[a].current = None
  BY <1>1, StopsEffect, IdleFacts
<1>3. LetsGo(a)
  BY <1>1, <1>2 DEF LetsGo
<1>4. raced' = raced /\ crossed' = crossed /\ torn' = torn /\ SameContents
  BY <1>1, KeptContents DEF history, writing
<1>. QED BY <1>2, <1>3, <1>4, OthersHold, ContentsStay

LEMMA ReadsContents ==
  ASSUME IngestionTypeOK, Sound, NEW a \in Actor, Reads(a)
  PROVE  HashTellsContent' /\ HalfWritten'
<1>1. CASE Gone(a)
  BY <1>1, GoneContents
<1>2. CASE ~Gone(a)
  <2>1. Others(a) /\ Shaped(job'[a]) /\ SameContents /\ UNCHANGED writing
    BY ReadsShaped, ReadsUnchanged, KeptContents DEF history
  <2>2. job[a].at \notin Mid /\ job'[a].at \notin Mid
    BY <1>2, IdleFacts, ClassifyEffect, ExtractEffect, HashEffect, ProceedEffect, FetchEffect, PurgeDoneEffect,
       ReadManifestEffect DEF Reads, Mid
  <2>. QED BY <2>1, <2>2, NoneCurrent, ShapedCurrent, QuietContents
<1>. QED BY <1>1, <1>2

LEMMA ModelContents ==
  ASSUME IngestionTypeOK, Sound, NEW a \in Actor, CheckModel(a) \/ RecordModel(a)
  PROVE  HashTellsContent' /\ HalfWritten'
<1>1. /\ Others(a) /\ Shaped(job'[a]) /\ job[a].at \in {"checking", "recording"}
      /\ job'[a].at \notin Mid
      /\ store' = store \/ (Opens /\ store' = Identified(job[a].model))
  BY CheckModelEffect, RecordEffect, IdleFacts DEF Checked, Mid
<1>2. job[a].model \in Model
  BY <1>1, JobNow DEF Shaped, Erasing, Listing
<1>3. SameContents
  BY <1>1, <1>2, KeptContents, IdentifiedContents
<1>4. UNCHANGED writing
  BY DEF CheckModel, RecordModel, history
<1>. QED BY <1>1, <1>3, <1>4, NoneCurrent, ShapedCurrent, QuietContents DEF Mid

LEMMA WriteManifestContents ==
  ASSUME IngestionTypeOK, Sound, NEW a \in Actor, WriteManifest(a)
  PROVE  HashTellsContent' /\ HalfWritten'
<1>. DEFINE managed == IF job[a].kind = "managed" THEN job[a].saved \cup (job[a].done \cap File)
                       ELSE job[a].saved \ job[a].sources
<1>1. Opens /\ managed \subseteq Source /\ (store' = Listed(managed) \/ store' = store) /\ UNCHANGED writing
  BY WriteManifestWrites
<1>. HIDE DEF managed
<1>2. SameContents
  BY <1>1, ListedContents, KeptContents
<1>3. Others(a) /\ Shaped(job'[a]) /\ job[a].at \notin Mid /\ job'[a].at \notin Mid
  BY WriteManifestEffect, IdleFacts DEF Mid
<1>. QED BY <1>1, <1>2, <1>3, NoneCurrent, ShapedCurrent, QuietContents

LEMMA StopContents ==
  ASSUME IngestionTypeOK, Sound, NEW stopped \in SUBSET Actor, StopAll(stopped)
  PROVE  HashTellsContent' /\ HalfWritten'
<1>1. /\ \A b \in Actor : job'[b] = IF b \in stopped THEN Idle ELSE job[b]
      /\ torn' = torn \cup Half(stopped) /\ raced' = raced /\ crossed' = crossed /\ SameContents
  BY StopAllEffect, KeptContents DEF StopAll
<1>2. ASSUME NEW b \in Actor PROVE Holds(b) \/ LetsGo(b)
  <2>1. CASE b \in stopped /\ job[b].at \in Mid
    BY <1>1, <2>1, IdleFacts DEF LetsGo, Half, Mid
  <2>2. CASE b \in stopped /\ job[b].at \notin Mid
    BY <1>1, <2>2, NoneCurrent, NotWriting, IdleFacts
  <2>3. CASE b \notin stopped
    BY <1>1, <2>3 DEF Holds
  <2>. QED BY <2>1, <2>2, <2>3
<1>. QED BY <1>1, <1>2, ContentsStay

LEMMA ContentsStep ==
  ASSUME IngestionTypeOK, Sound, IngestionNext
  PROVE  HashTellsContent' /\ HalfWritten'
<1>1. ASSUME NEW s \in Source, Edit(s) PROVE HashTellsContent' /\ HalfWritten'
  <2>1. raced' = raced /\ torn' = torn /\ crossed' = crossed /\ SameContents
    BY <1>1, KeptContents DEF Edit, history, writing
  <2>. QED BY <1>1, <2>1, EditEffect, NotedHolds, ContentsStay
<1>2. ASSUME NEW a \in Actor, StartRun(a) \/ StartDelete(a) PROVE HashTellsContent' /\ HalfWritten'
  <2>1. Others(a) /\ job'[a].current = None
    BY <1>2, StartRunEffect, StartDeleteEffect
  <2>2. UNCHANGED writing /\ job[a].current = None /\ SameContents
    BY <1>2, BegunFromNone, KeptContents DEF StartRun, StartDelete, history
  <2>. QED BY <2>1, <2>2, QuietContents
<1>3. ASSUME NEW a \in Actor, StartManaged(a) PROVE HashTellsContent' /\ HalfWritten'
  <2>1. raced' = raced /\ torn' = torn /\ crossed' = crossed /\ SameContents /\ job[a].current = None
    BY <1>3, BegunFromNone, KeptContents DEF StartManaged, writing
  <2>2. job'[a].current = None /\ \A b \in Actor \ {a} : Noted(job[b], job'[b])
    BY <1>3, StartManagedEffect
  <2>. QED BY <2>1, <2>2, NotedHolds, NotWriting, ContentsStay
<1>4. ASSUME NEW a \in Actor, Acquire(a) PROVE HashTellsContent' /\ HalfWritten'
  <2>1. UNCHANGED writing /\ SameContents /\ job[a].at \notin Mid
    BY <1>4, KeptContents DEF Acquire, Mid
  <2>2. Others(a) /\ Shaped(job'[a]) /\ job'[a].at \notin Mid
    BY <1>4, AcquireEffect, IdleFacts DEF Mid
  <2>. QED BY <2>1, <2>2, NoneCurrent, ShapedCurrent, QuietContents
<1>5. ASSUME NEW a \in Actor, Commits(a) PROVE HashTellsContent' /\ HalfWritten'
  BY <1>5, ModelContents, WipeContents, DropContents, AddContents, LabelContents, EmptyContents,
     ForgetContents, WriteManifestContents DEF Commits
<1>6. ASSUME NEW a \in Actor, Unlink(a) PROVE HashTellsContent' /\ HalfWritten'
  <2>1. UNCHANGED writing /\ SameContents /\ job[a].at \notin Mid
    BY <1>6, KeptContents DEF Unlink, Mid, history
  <2>2. Others(a) /\ job'[a].current = None
    BY <1>6, StopsEffect, IdleFacts DEF Unlink
  <2>. QED BY <2>1, <2>2, NoneCurrent, QuietContents
<1>. QED BY <1>1, <1>2, <1>3, <1>4, <1>5, <1>6, ReadsContents, StopContents, WipeCutContents,
          StepCases DEF Starts

(***************************************************************************)
(* The manifest.                                                           *)
(***************************************************************************)

Running(b) == job[b].kind = "run" /\ job[b].at # "idle"
Absent == {s \in Source : ~Present(s)}

(* A run that goes on has not seen more of the manifest than it had.       *)
GoesOn(b) == Running(b)' =>
  \/ /\ Running(b) /\ job'[b].sources = job[b].sources
     /\ \A s \in Manifest \ (job[b].sources \cup Url) : Present(s) \/ ~Present(s)' \/ s \in late'
  \/ Manifest \ job'[b].sources \subseteq Absent'

LEMMA ManifestStays ==
  ASSUME IngestionTypeOK, Sound, Manifest' = Manifest, kept' = kept, contended' = contended, late \subseteq late',
         \A b \in Actor : GoesOn(b)
  PROVE  ManifestSound'
<1>. DEFINE M == Manifest
<1>1. /\ M \subseteq Uploads
      /\ \A s \in Source \ contended : s \in M <=> s \in kept
      /\ \A b \in Actor : Running(b) => M \ job[b].sources \subseteq Url \cup late \cup contended \cup Absent
  BY DEF Sound, ManifestSound, Running, Absent
<1>2. M \subseteq Source
  BY ResolvedFacts
<1>. HIDE DEF M
<1>3. ASSUME NEW b \in Actor, Running(b)'
      PROVE  M \ job'[b].sources \subseteq Url \cup late' \cup contended' \cup Absent'
  BY <1>1, <1>2, <1>3 DEF GoesOn, Absent, M
<1>4. Manifest' = M
  BY DEF M
<1>. QED BY <1>1, <1>3, <1>4 DEF ManifestSound, Running, Absent

LEMMA OthersGoOn ==
  ASSUME NEW a \in Actor, Others(a), \A s \in Source : Present(s)' => Present(s), IngestionTypeOK
  PROVE  \A b \in Actor \ {a} : GoesOn(b)
<1>1. Manifest \subseteq Source
  BY ResolvedFacts
<1>. QED BY <1>1 DEF Others, GoesOn, Running

(* The job of a run keeps its sources to its end.                          *)
LEMMA SameRun ==
  ASSUME IngestionTypeOK, Sound, NEW a \in Actor, Reads(a) \/ Commits(a) \/ Acquire(a)
  PROVE  /\ Others(a)
         /\ Running(a)' => Running(a) /\ job'[a].sources = job[a].sources
<1>1. Others(a)
  BY ReadsShaped, CommitPlaces, AcquireEffect
<1>2. CASE job'[a] = Idle
  BY <1>1, <1>2, IdleFacts DEF Running
<1>3. CASE job'[a] # Idle
  <2>1. job'[a].kind = job[a].kind /\ job'[a].sources = job[a].sources
    <3>1. CASE Gone(a)
      <4>1. Stops(a)
        BY <3>1 DEF Gone
      <4>. QED BY <1>3, <4>1, StopsEffect
    <3>2. CASE Reads(a) /\ ~Gone(a)
      BY <1>3, <3>2, ClassifyEffect, ExtractEffect, HashEffect, ProceedEffect, FetchEffect, PurgeDoneEffect,
         ReadManifestEffect DEF Reads, SameBut, Fields
    <3>3. CASE Commits(a)
      <4>1. CASE CheckModel(a)
        BY <1>3, <4>1, CheckModelEffect DEF Checked, SameBut, Fields
      <4>2. CASE Wipe(a)
        BY <1>3, <4>2, WipeEffect DEF SameBut, Fields
      <4>3. CASE Drop(a)
        BY <1>3, <4>3, DropEffect DEF SameBut, Fields
      <4>4. CASE Add(a)
        BY <1>3, <4>4, AddEffect DEF SameBut, Fields
      <4>5. CASE Label(a)
        BY <1>3, <4>5, LabelEffect DEF SameBut, Fields
      <4>6. CASE Empty(a)
        BY <1>3, <4>6, EmptyEffect DEF SameBut, Fields
      <4>7. CASE Forget(a)
        BY <1>3, <4>7, ForgetEffect DEF SameBut, Fields
      <4>8. CASE RecordModel(a)
        BY <1>3, <4>8, RecordEffect DEF SameBut, Fields
      <4>9. CASE WriteManifest(a)
        BY <1>3, <4>9, WriteManifestEffect DEF SameBut, Fields
      <4>. QED BY <3>3, <4>1, <4>2, <4>3, <4>4, <4>5, <4>6, <4>7, <4>8, <4>9 DEF Commits
    <3>4. CASE Acquire(a)
      BY <1>3, <3>4, AcquireEffect DEF SameBut, Fields
    <3>. QED BY <3>1, <3>2, <3>3, <3>4
  <2>2. job[a].at # "idle"
    BY DEF Reads, Commits, Acquire, Classify, Extract, Hash, Proceed, Fetch, PurgeDone, ReadManifest, Gone,
           CheckModel, Wipe, Drop, Add, Label, Empty, Forget, RecordModel, WriteManifest
  <2>. QED BY <1>1, <2>1, <2>2 DEF Running
<1>. QED BY <1>2, <1>3

LEMMA RunGoesOn ==
  ASSUME IngestionTypeOK, Sound, NEW a \in Actor, Reads(a) \/ Commits(a) \/ Acquire(a)
  PROVE  \A b \in Actor : GoesOn(b)
<1>1. Others(a) /\ (Running(a)' => Running(a) /\ job'[a].sources = job[a].sources)
  BY SameRun
<1>2. disk' = disk
  BY ReadsUnchanged, CommitDisk DEF world, Acquire
<1>3. \A s : Present(s)' <=> Present(s)
  BY <1>2 DEF Present
<1>. QED BY <1>1, <1>3, OthersGoOn DEF GoesOn

(* The commits that leave the manifest alone.                              *)
LEMMA CommitManifest ==
  ASSUME IngestionTypeOK, Sound, NEW a \in Actor, Commits(a), ~Wipe(a), ~WriteManifest(a)
  PROVE  Manifest' = Manifest /\ UNCHANGED registering
<1>1. UNCHANGED registering
  BY DEF Commits, CheckModel, Drop, Add, Label, Empty, Forget, RecordModel, history
<1>2. CASE CheckModel(a) \/ RecordModel(a)
  <2>1. /\ job[a].at \in {"checking", "recording"}
        /\ store' = store \/ (Opens /\ store' = Identified(job[a].model))
    BY <1>2, CheckModelEffect, RecordEffect
  <2>2. job[a].model \in Model
    BY <2>1, JobNow DEF Shaped, Erasing, Listing
  <2>. QED BY <1>1, <2>1, <2>2, KeptContents, IdentifiedContents
<1>3. CASE Drop(a)
  BY <1>1, <1>3, DropEffect, ReplacedContents
<1>4. CASE Add(a)
  <2>1. [text |-> job[a].text[job[a].current], model |-> job[a].model] \in Chunk
    BY <1>4, AddEffect DEF Chunk
  <2>. QED BY <1>1, <1>4, <2>1, AddEffect, AddedContents DEF SameStore
<1>5. CASE Label(a)
  <2>1. job[a].current \in Source /\ job[a].hash[job[a].current] \in Content \cup {None}
    BY <1>5, LabelEffect, JobNow, JobFields
  <2>. QED BY <1>1, <1>5, <2>1, LabelEffect, HashedContents DEF SameStore
<1>6. CASE Empty(a)
  BY <1>1, <1>6, EmptyEffect, ClearedContents DEF SameStore
<1>7. CASE Forget(a)
  BY <1>1, <1>7, ForgetEffect, HashedContents DEF SameStore
<1>. QED BY <1>2, <1>3, <1>4, <1>5, <1>6, <1>7 DEF Commits

LEMMA WipeManifest ==
  ASSUME IngestionTypeOK, Sound, NEW a \in Actor, Wipe(a)
  PROVE  ManifestSound'
<1>1. Manifest' = {}
  BY WipeEffect, FreshContents DEF Manifest, Opens, Exists
<1>2. kept' = kept /\ contended' = contended \cup (IF Exists THEN store.managed ELSE {})
  BY DEF Wipe
<1>3. Manifest \subseteq contended' /\ contended \subseteq contended'
  BY <1>2 DEF Manifest, Opens
<1>4. \A s \in Source \ contended' : s \notin kept'
  BY <1>2, <1>3 DEF Sound, ManifestSound
<1>. QED BY <1>1, <1>4 DEF ManifestSound

LEMMA WipeCutManifest ==
  ASSUME IngestionTypeOK, Sound, NEW a \in Actor, WipeCut(a)
  PROVE  ManifestSound'
<1>1. Manifest' \subseteq Manifest /\ Manifest \subseteq contended' /\ contended \subseteq contended'
  BY WipeCutEffect DEF Manifest, Opens, Exists
<1>2. \A s \in Source \ contended' : s \notin kept'
  BY <1>1, WipeCutEffect DEF Sound, ManifestSound
<1>. QED BY <1>1, <1>2 DEF Sound, ManifestSound

LEMMA WriteManifestManifest ==
  ASSUME IngestionTypeOK, Sound, NEW a \in Actor, WriteManifest(a)
  PROVE  ManifestSound'
<1>. DEFINE j == job[a]
            adds == j.kind = "managed"
            files == j.done \cap File
            managed == IF adds THEN j.saved \cup files ELSE j.saved \ j.sources
            writes == adds \/ managed # j.saved
            M == store.managed
<1>1. /\ Opens /\ managed \subseteq Source
      /\ store' = IF writes THEN Listed(managed) ELSE store
      /\ kept' = (IF adds THEN kept \cup files ELSE kept \ j.sources)
      /\ late' = (IF adds /\ Unseen(files) THEN late \cup files ELSE late)
      /\ contended' = contended \cup
           (IF writes THEN (M \ j.saved) \cup (j.saved \ M) ELSE M \cap j.sources)
      /\ UNCHANGED <<world, writing, together>>
  BY WriteManifestWrites
<1>2. /\ j.kind \in Kind /\ j.saved \subseteq Source /\ j.done \subseteq Source /\ j.at = "rewriting"
      /\ j.saved \subseteq Uploads
      /\ adds => j.done \subseteq j.sources /\ j.sources \cap File \subseteq Uploads
  BY JobNow, JobFields DEF Shaped, WriteManifest
<1>3. Manifest = M
  BY <1>1 DEF Manifest
<1>4. /\ M \subseteq Uploads
      /\ \A s \in Source \ contended : s \in M <=> s \in kept
      /\ \A b \in Actor : Running(b) => M \ job[b].sources \subseteq Url \cup late \cup contended \cup Absent
  BY <1>3 DEF Sound, ManifestSound, Running, Absent
<1>5. Manifest' = IF writes THEN managed ELSE M
  BY <1>1, <1>3, ListedContents, KeptContents
<1>6. Manifest' \subseteq Uploads
  BY <1>2, <1>4, <1>5
<1>7. \A s \in Source \ contended' : s \in Manifest' <=> s \in kept'
  BY <1>1, <1>4, <1>5
<1>8. disk' = disk
  BY <1>1 DEF world
<1>9. ASSUME NEW b \in Actor, Running(b)'
      PROVE  Manifest' \ job'[b].sources \subseteq Url \cup late' \cup contended' \cup Absent'
  <2>1. Running(b) /\ job'[b].sources = job[b].sources
    BY <1>9, SameRun DEF Commits, Others, Running
  <2>2. \A s \in files \ job[b].sources : adds => s \in late'
    <3>1. files \subseteq job[b].sources \/ Unseen(files)
      BY <2>1 DEF Running, Unseen
    <3>. QED BY <1>1, <3>1
  <2>3. Absent' = Absent
    BY <1>8 DEF Absent, Present
  <2>4. late \subseteq late'
    BY <1>1
  <2>. QED BY <1>1, <1>4, <1>5, <2>1, <2>2, <2>3, <2>4
<1>. QED BY <1>6, <1>7, <1>9 DEF ManifestSound, Running, Absent

LEMMA ManifestStep ==
  ASSUME IngestionTypeOK, Sound, IngestionNext
  PROVE  ManifestSound'
<1>1. ASSUME NEW s \in Source, Edit(s) PROVE ManifestSound'
  <2>1. /\ \A b \in Actor : Noted(job[b], job'[b]) 
        /\ \A t \in Source \ {s} : disk'[t] = disk[t]
        /\ s \in Configured \cup Url
    BY <1>1, EditEffect
  <2>2. Manifest' = Manifest /\ UNCHANGED <<kept, contended, late>>
    BY <1>1, KeptContents DEF Edit, history, registering
  <2>3. \A t \in Manifest \ Url : t \in Source /\ t # s
    BY <2>1, ResolvedFacts DEF Sound, ManifestSound, Uploads
  <2>4. \A t \in Manifest \ Url : Present(t)' <=> Present(t)
    BY <2>1, <2>3 DEF Present
  <2>5. \A b \in Actor : GoesOn(b)
    BY <2>1, <2>4, NotedFields DEF GoesOn, Running
  <2>. QED BY <2>2, <2>5, ManifestStays
<1>2. ASSUME NEW a \in Actor, StartRun(a) PROVE ManifestSound'
  <2>1. Others(a) /\ job'[a].sources = Resolved
    BY <1>2, StartRunEffect
  <2>2. Manifest' = Manifest /\ UNCHANGED <<kept, contended, late, disk>>
    BY <1>2, KeptContents DEF StartRun, history, registering
  <2>3. Absent' = Absent /\ \A s \in Source : Present(s)' => Present(s)
    BY <2>2 DEF Absent, Present
  <2>4. GoesOn(a)
    BY <2>1, <2>3, ResolvedFacts DEF GoesOn, Absent
  <2>. QED BY <2>1, <2>2, <2>3, <2>4, OthersGoOn, ManifestStays
<1>3. ASSUME NEW a \in Actor, StartDelete(a) PROVE ManifestSound'
  <2>1. Others(a) /\ ~Running(a)'
    BY <1>3, StartDeleteEffect DEF Running
  <2>2. Manifest' = Manifest /\ UNCHANGED <<kept, contended, late, disk>>
    BY <1>3, KeptContents DEF StartDelete, history, registering
  <2>3. \A s \in Source : Present(s)' => Present(s)
    BY <2>2 DEF Present
  <2>. QED BY <2>1, <2>2, <2>3, OthersGoOn, ManifestStays DEF GoesOn
<1>4. ASSUME NEW a \in Actor, StartManaged(a) PROVE ManifestSound'
  <2>1. PICK s \in Source :
         /\ \A b \in Actor \ {a} : Noted(job[b], job'[b])
         /\ job'[a].kind = "managed"
         /\ \A t \in Source \ {s} : disk'[t] = disk[t]
         /\ late' = IF ~Present(s) /\ Unseen({s}) THEN late \cup {s} ELSE late
    BY <1>4, StartManagedEffect
  <2>2. Manifest' = Manifest /\ UNCHANGED <<kept, contended>> /\ late \subseteq late'
    BY <1>4, <2>1, KeptContents DEF StartManaged
  <2>3. ASSUME NEW b \in Actor PROVE GoesOn(b)
    <3>. SUFFICES ASSUME b # a, Running(b)' PROVE GoesOn(b)
      BY <2>1 DEF GoesOn, Running
    <3>1. Running(b) /\ job'[b].sources = job[b].sources
      BY <2>1, NotedFields DEF Running
    <3>2. ASSUME NEW t \in Manifest \ job[b].sources, ~Present(t) PROVE ~Present(t)' \/ t \in late'
      <4>1. CASE t = s
        <5>1. Unseen({s})
          BY <3>1, <3>2, <4>1 DEF Running, Unseen
        <5>. QED BY <2>1, <3>2, <4>1, <5>1
      <4>2. CASE t # s
        BY <2>1, <3>2, <4>2, ResolvedFacts DEF Present
      <4>. QED BY <4>1, <4>2
    <3>. QED BY <3>1, <3>2 DEF GoesOn
  <2>. QED BY <2>2, <2>3, ManifestStays
<1>5. ASSUME NEW a \in Actor, Acquire(a) \/ Reads(a) PROVE ManifestSound'
  <2>1. Manifest' = Manifest /\ UNCHANGED <<kept, contended, late>>
    BY <1>5, ReadsUnchanged, KeptContents DEF Acquire, registering, history
  <2>. QED BY <1>5, <2>1, RunGoesOn, ManifestStays
<1>6. ASSUME NEW a \in Actor, Commits(a), ~Wipe(a), ~WriteManifest(a) PROVE ManifestSound'
  <2>1. Manifest' = Manifest /\ UNCHANGED <<kept, contended, late>>
    BY <1>6, CommitManifest DEF registering
  <2>. QED BY <1>6, <2>1, RunGoesOn, ManifestStays
<1>7. ASSUME NEW a \in Actor, Unlink(a) PROVE ManifestSound'
  <2>1. Others(a) /\ ~Running(a)'
    BY <1>7, StopsEffect, IdleFacts DEF Unlink, Running
  <2>2. Manifest' = Manifest /\ UNCHANGED <<kept, contended, late>>
    BY <1>7, KeptContents DEF Unlink, history, registering
  <2>3. \A s \in Source : Present(s)' => Present(s)
    BY <1>7 DEF Unlink, Present
  <2>. QED BY <2>1, <2>2, <2>3, OthersGoOn, ManifestStays DEF GoesOn
<1>8. ASSUME NEW stopped \in SUBSET Actor, StopAll(stopped) PROVE ManifestSound'
  <2>1. \A b \in Actor : job'[b] = IF b \in stopped THEN Idle ELSE job[b]
    BY <1>8, StopAllEffect
  <2>2. Manifest' = Manifest /\ UNCHANGED <<kept, contended, late, disk>>
    BY <1>8, KeptContents DEF StopAll, registering
  <2>3. \A s \in Source : Present(s)' <=> Present(s)
    BY <2>2 DEF Present
  <2>4. \A b \in Actor : GoesOn(b)
    BY <2>1, <2>3, IdleFacts, ResolvedFacts DEF GoesOn, Running
  <2>. QED BY <2>2, <2>4, ManifestStays
<1>. QED BY <1>1, <1>2, <1>3, <1>4, <1>5, <1>6, <1>7, <1>8, WipeManifest, WriteManifestManifest,
            WipeCutManifest, StepCases DEF Starts, Commits

(***************************************************************************)
(* The purge of a run.                                                     *)
(***************************************************************************)

KnownFiles == {s \in File : Known(s) # None}

LEMMA SameKnown == ASSUME store' = store PROVE KnownFiles' = KnownFiles
BY DEF KnownFiles, Known, Exists

LEMMA ContentsKnown == ASSUME SameContents PROVE KnownFiles' = KnownFiles
BY DEF SameContents, KnownFiles, Known

LEMMA KnownStep ==
  ASSUME IngestionTypeOK, Sound, NEW a \in Actor, Commits(a)
  PROVE  /\ ~Label(a) => KnownFiles' \subseteq KnownFiles
         /\ Label(a) => KnownFiles' \subseteq KnownFiles \cup {job[a].current}
         /\ Forget(a) => KnownFiles' \subseteq KnownFiles \ {job[a].current}
<1>1. CASE CheckModel(a) \/ RecordModel(a)
  <2>1. /\ job[a].at \in {"checking", "recording"}
        /\ store' = store \/ (Opens /\ store' = Identified(job[a].model))
    BY <1>1, CheckModelEffect, RecordEffect
  <2>2. job[a].model \in Model
    BY <2>1, JobNow DEF Shaped, Erasing, Listing
  <2>3. KnownFiles' = KnownFiles /\ ~Forget(a)
    BY <2>1, <2>2, KeptContents, IdentifiedContents, ContentsKnown DEF Forget
  <2>. QED BY <2>3
<1>2. CASE Wipe(a)
  <2>1. KnownFiles' = {}
    BY <1>2, WipeEffect, FreshContents DEF KnownFiles, Known, Exists, Source
  <2>2. ~Forget(a)
    BY <1>2 DEF Wipe, Forget
  <2>. QED BY <2>1, <2>2
<1>3. CASE Drop(a)
  <2>1. PICK s \in Source : store' = Replaced(s)
    BY <1>3, DropEffect
  <2>2. /\ Exists' /\ Exists => store'.hash = store.hash
        /\ ~Exists => \A r \in Source : store'.hash[r] = None
    BY <2>1, ReplacedContents
  <2>3. KnownFiles' \subseteq KnownFiles /\ ~Forget(a)
    BY <1>3, <2>2 DEF KnownFiles, Known, Source, Drop, Forget
  <2>. QED BY <2>3
<1>4. CASE Add(a)
  <2>1. [text |-> job[a].text[job[a].current], model |-> job[a].model] \in Chunk
    BY <1>4, AddEffect DEF Chunk
  <2>2. Exists /\ Exists' /\ store'.hash = store.hash
    BY <1>4, <2>1, AddEffect, AddedContents DEF SameStore, Opens
  <2>3. KnownFiles' = KnownFiles /\ ~Forget(a)
    BY <1>4, <2>2 DEF KnownFiles, Known, Add, Forget
  <2>. QED BY <2>3
<1>5. CASE Label(a)
  <2>1. job[a].current \in Source /\ job[a].hash[job[a].current] \in Content \cup {None}
    BY <1>5, LabelEffect, JobNow, JobFields
  <2>2. Exists /\ Exists' /\ \A r \in Source \ {job[a].current} : store'.hash[r] = store.hash[r]
    BY <1>5, <2>1, LabelEffect, HashedContents DEF SameStore, Opens
  <2>3. KnownFiles' \subseteq KnownFiles \cup {job[a].current} /\ ~Forget(a)
    BY <1>5, <2>2 DEF KnownFiles, Known, Source, Label, Forget
  <2>. QED BY <1>5, <2>3
<1>6. CASE Empty(a)
  <2>1. Exists /\ Exists' /\ store'.hash = store.hash
    BY <1>6, EmptyEffect, ClearedContents DEF SameStore, Opens
  <2>2. KnownFiles' = KnownFiles /\ ~Forget(a)
    BY <1>6, <2>1 DEF KnownFiles, Known, Empty, Forget
  <2>. QED BY <2>2
<1>7. CASE Forget(a)
  <2>1. /\ Exists /\ Exists' /\ store'.hash[job[a].current] = None
        /\ \A r \in Source \ {job[a].current} : store'.hash[r] = store.hash[r]
    BY <1>7, ForgetEffect, HashedContents DEF SameStore, Opens
  <2>2. KnownFiles' \subseteq KnownFiles \ {job[a].current} /\ ~Label(a)
    BY <1>7, <2>1 DEF KnownFiles, Known, Source, Label, Forget
  <2>. QED BY <2>2
<1>8. CASE WriteManifest(a)
  <2>. DEFINE managed == IF job[a].kind = "managed" THEN job[a].saved \cup (job[a].done \cap File)
                         ELSE job[a].saved \ job[a].sources
  <2>1. Opens /\ managed \subseteq Source /\ (store' = Listed(managed) \/ store' = store)
    BY <1>8, WriteManifestWrites
  <2>. HIDE DEF managed
  <2>2. KnownFiles' = KnownFiles /\ ~Forget(a)
    BY <1>8, <2>1, ListedContents, KeptContents, ContentsKnown DEF WriteManifest, Forget
  <2>. QED BY <2>2
<1>. QED BY <1>1, <1>2, <1>3, <1>4, <1>5, <1>6, <1>7, <1>8 DEF Commits

(* The job of b, its place and what it has to purge are as they were.      *)
LEMMA PurgingStays ==
  ASSUME Sound, ~together, NEW b \in Actor, Noted(job[b], job'[b]),
         ~Ingesting(b) \/ KnownFiles' \subseteq KnownFiles \cup job[b].sources
  PROVE  Purging(b)'
<1>1. Purging(b)
  BY DEF Sound, PurgeSound
<1>2. CASE Ingesting(b)
  <2>1. Unresolved(b)' \subseteq Unresolved(b)
    BY <1>2, NotedFields DEF Unresolved, KnownFiles
  <2>. QED BY <1>1, <2>1, NotedFields DEF Purging
<1>3. CASE ~Ingesting(b)
  BY <1>3, NotedFields DEF Ingesting, Purging, Writing, Erasing
<1>. QED BY <1>2, <1>3

(* A job where no purge is due.                                            *)
LEMMA PurgingElsewhere ==
  ASSUME NEW b \in Actor, job'[b].at \notin Writing \cup Erasing \cup {"fetching", "recording"}
  PROVE  Purging(b)'
BY DEF Purging, Writing, Erasing

LEMMA PurgeQuiet ==
  ASSUME IngestionTypeOK, Sound, store' = store, together' = together,
         \A b \in Actor : \/ Noted(job[b], job'[b])
                          \/ job'[b].at \notin Writing \cup Erasing \cup {"fetching", "recording"}
                          \/ job'[b].kind # "run"
  PROVE  PurgeSound'
<1>. SUFFICES ASSUME ~together, NEW b \in Actor PROVE Purging(b)'
  BY DEF PurgeSound
<1>1. KnownFiles' = KnownFiles
  BY SameKnown
<1>2. CASE Noted(job[b], job'[b])
  BY <1>1, <1>2, PurgingStays
<1>3. CASE job'[b].kind # "run"
  BY <1>3 DEF Purging
<1>. QED BY <1>2, <1>3, PurgingElsewhere

LEMMA OthersNoted ==
  ASSUME IngestionTypeOK, NEW a \in Actor, Others(a) PROVE \A b \in Actor \ {a} : Noted(job[b], job'[b])
BY SameIsNoted DEF Others, IngestionTypeOK

(* The purge of a run that reads, moves on or ends.                        *)
LEMMA ReadsPurging ==
  ASSUME IngestionTypeOK, Sound, NEW a \in Actor, Reads(a), ~together
  PROVE  Purging(a)'
<1>0. Purging(a) /\ Shaped(job[a]) /\ store' = store
  BY ReadsUnchanged, JobNow DEF Sound, PurgeSound
<1>1. CASE job'[a] = Idle \/ job'[a].at \in Listing
  BY <1>1, IdleFacts, PurgingElsewhere DEF Writing, Erasing, Listing
<1>2. CASE Classify(a) \/ Extract(a) \/ Hash(a)
  <2>1. CASE job'[a] # Idle
    <3>1. /\ job'[a].at \in {"storing", "extracting", "hashing"} /\ job[a].at \in Early
          /\ job'[a].fetched = job[a].fetched
      BY <1>2, <2>1, ClassifyEffect, ExtractEffect, HashEffect DEF SameBut, Fields, Early
    <3>2. ~job'[a].fetched
      BY <1>0, <3>1 DEF Shaped
    <3>. QED BY <3>1, <3>2 DEF Purging, Writing, Erasing
  <2>. QED BY <1>1, <2>1
<1>3. ASSUME job'[a].sources = job[a].sources PROVE Unresolved(a)' = Unresolved(a)
  BY <1>0, <1>3 DEF Unresolved, Known, Exists
<1>4. CASE Proceed(a) /\ job'[a] # Idle
  <2>1. job[a].at = "storing" /\ job[a].todo = {}
    BY <1>4, ProceedEffect
  <2>2. CASE job[a].purge /\ job'[a].at = "purging" /\ job'[a].todo = Unresolved(a) /\ SameBut(job'[a], job[a], {"at", "todo"})
    BY <1>0, <1>3, <2>2 DEF SameBut, Fields, Purging, Writing, Erasing
  <2>3. CASE /\ ~job[a].purge /\ job'[a].at = (IF job[a].fetched THEN "recording" ELSE "fetching")
             /\ SameBut(job'[a], job[a], {"at"})
    <3>1. /\ job'[a].kind = job[a].kind /\ job'[a].sources = job[a].sources /\ job'[a].barren = job[a].barren
      BY <2>3 DEF SameBut, Fields
    <3>2. job[a].kind = "run" /\ ~job[a].barren => (IF job[a].fetched THEN Unresolved(a) = {} ELSE job[a].sources \cap File = {})
      BY <1>0, <2>1, <2>3 DEF Shaped, Purging, Writing
    <3>. QED BY <1>3, <2>3, <3>1, <3>2 DEF Purging, Writing, Erasing
  <2>. QED BY <1>4, <2>2, <2>3, ProceedEffect
<1>5. CASE Fetch(a)
  <2>1. /\ job[a].at = "fetching" /\ job'[a].at = "storing" /\ job'[a].fetched
        /\ job'[a].purge = (job[a].kind = "run" /\ job[a].sources \cap File = {})
        /\ job'[a].kind = job[a].kind /\ job'[a].sources = job[a].sources /\ job'[a].barren = job[a].barren
    BY <1>5, FetchEffect DEF SameBut, Fields
  <2>. QED BY <1>0, <1>3, <2>1 DEF Purging, Writing, Erasing
<1>6. CASE PurgeDone(a)
  <2>1. /\ job[a].at = "purging" /\ job[a].todo = {} /\ job'[a].at \in {"recording", "fetching", "manifest"}
        /\ job'[a].kind = job[a].kind /\ job'[a].sources = job[a].sources /\ job'[a].barren = job[a].barren
    BY <1>6, PurgeDoneEffect DEF SameBut, Fields
  <2>2. job[a].kind = "run" /\ ~job[a].barren => Unresolved(a) = {}
    BY <1>0, <2>1 DEF Purging, Erasing
  <2>. QED BY <1>3, <2>1, <2>2 DEF Purging, Writing, Erasing
<1>7. CASE ReadManifest(a)
  BY <1>1, <1>7, ReadManifestEffect DEF Listing
<1>8. CASE Gone(a)
  <2>1. Stops(a)
    BY <1>8 DEF Gone
  <2>. QED BY <1>1, <2>1, StopsEffect
<1>. QED BY <1>1, <1>2, <1>4, <1>5, <1>6, <1>7, <1>8 DEF Reads

LEMMA CommitsPurging ==
  ASSUME IngestionTypeOK, Sound, NEW a \in Actor, Commits(a), ~together
  PROVE  Purging(a)'
<1>0. Purging(a) /\ Shaped(job[a])
  BY JobNow DEF Sound, PurgeSound
<1>1. CASE CheckModel(a) \/ Wipe(a) \/ RecordModel(a) \/ WriteManifest(a)
  <2>1. job'[a].at \in {"idle", "wiping", "classifying", "manifest", "unlinking"}
    BY <1>1, IdleFacts, CheckModelEffect, WipeEffect, RecordEffect, WriteManifestEffect DEF Checked
  <2>. QED BY <2>1, PurgingElsewhere DEF Writing, Erasing
<1>2. CASE Drop(a) \/ Add(a) \/ Label(a)
  <2>1. /\ job[a].at \in Writing /\ job'[a].at \in Writing /\ job'[a].kind = job[a].kind
        /\ job'[a].sources = job[a].sources /\ job'[a].barren = job[a].barren
        /\ job'[a].purge = job[a].purge /\ job'[a].fetched = job[a].fetched
    <3>1. CASE Drop(a)
      BY <3>1, DropEffect DEF SameBut, Fields, Writing
    <3>2. CASE Add(a)
      BY <3>2, AddEffect DEF SameBut, Fields, Writing
    <3>3. CASE Label(a)
      BY <3>3, LabelEffect DEF SameBut, Fields, Writing
    <3>. QED BY <1>2, <3>1, <3>2, <3>3
  <2>2. Label(a) => job[a].current \in job[a].sources
    BY LabelEffect
  <2>3. Unresolved(a)' \subseteq Unresolved(a)
    BY <2>1, <2>2, KnownStep DEF Unresolved, KnownFiles
  <2>. QED BY <1>0, <2>1, <2>3 DEF Purging, Writing, Erasing
<1>3. CASE Empty(a)
  <2>1. /\ job[a].at \in Erasing /\ job'[a].at \in Erasing /\ job'[a].kind = job[a].kind
        /\ job'[a].sources = job[a].sources /\ job'[a].barren = job[a].barren
        /\ job'[a].todo = job[a].todo /\ ~Label(a)
    BY <1>3, EmptyEffect DEF SameBut, Fields, Erasing, Empty, Label
  <2>2. Unresolved(a)' \subseteq Unresolved(a)
    BY <2>1, KnownStep DEF Unresolved, KnownFiles
  <2>. QED BY <1>0, <2>1, <2>2 DEF Purging, Writing, Erasing
<1>4. CASE Forget(a)
  <2>1. /\ job[a].at \in Erasing /\ job'[a].at \in Erasing /\ job'[a].kind = job[a].kind
        /\ job'[a].sources = job[a].sources /\ job'[a].barren = job[a].barren
        /\ job'[a].todo = job[a].todo \ {job[a].current}
    BY <1>4, ForgetEffect DEF SameBut, Fields, Erasing
  <2>2. Unresolved(a)' \subseteq Unresolved(a) \ {job[a].current}
    BY <1>4, <2>1, KnownStep DEF Unresolved, KnownFiles
  <2>. QED BY <1>0, <2>1, <2>2 DEF Purging, Writing, Erasing
<1>. QED BY <1>1, <1>2, <1>3, <1>4 DEF Commits

(* What is labelled is a source of the job, and no other ingest is there.  *)
LEMMA CommitsPurge ==
  ASSUME IngestionTypeOK, Sound, NEW a \in Actor, Commits(a)
  PROVE  PurgeSound'
<1>. SUFFICES ASSUME ~together, NEW b \in Actor PROVE Purging(b)'
  BY CommitDisk DEF PurgeSound
<1>1. CASE b = a
  BY <1>1, CommitsPurging
<1>2. CASE b # a
  <2>1. Noted(job[b], job'[b])
    BY <1>2, CommitPlaces, OthersNoted
  <2>2. CASE ~Label(a)
    BY <2>1, <2>2, KnownStep, PurgingStays
  <2>3. CASE Label(a)
    <3>1. Ingesting(a)
      BY <2>3, JobNow DEF Label, Shaped, Erasing, Listing, Ingesting
    <3>2. ~Ingesting(b)
      BY <1>2, <3>1 DEF Sound, OneAtATime
    <3>. QED BY <2>1, <3>2, PurgingStays
  <2>. QED BY <2>2, <2>3
<1>. QED BY <1>1, <1>2

LEMMA PurgeStep ==
  ASSUME IngestionTypeOK, Sound, IngestionNext
  PROVE  PurgeSound'
<1>1. ASSUME NEW s \in Source, Edit(s) PROVE PurgeSound'
  <2>1. store' = store /\ together' = together
    BY <1>1 DEF Edit, history
  <2>. QED BY <1>1, <2>1, EditEffect, PurgeQuiet
<1>2. ASSUME NEW a \in Actor, StartRun(a) \/ StartDelete(a) PROVE PurgeSound'
  <2>1. store' = store /\ together' = together
    BY <1>2 DEF StartRun, StartDelete, history
  <2>2. Others(a) /\ (job'[a].at = "resolved" \/ job'[a].kind = "delete")
    BY <1>2, StartRunEffect, StartDeleteEffect
  <2>. QED BY <2>1, <2>2, OthersNoted, PurgeQuiet DEF Writing, Erasing
<1>3. ASSUME NEW a \in Actor, StartManaged(a) PROVE PurgeSound'
  <2>1. store' = store /\ together' = together
    BY <1>3 DEF StartManaged
  <2>2. job'[a].kind = "managed" /\ \A b \in Actor \ {a} : Noted(job[b], job'[b])
    BY <1>3, StartManagedEffect
  <2>. QED BY <2>1, <2>2, PurgeQuiet
<1>4. ASSUME NEW a \in Actor, Acquire(a) PROVE PurgeSound'
  <2>1. /\ store' = store /\ Others(a) /\ job'[a].at \in {"idle", "checking"}
        /\ together => together'
    BY <1>4, AcquireEffect, IdleFacts DEF Acquire
  <2>2. KnownFiles' = KnownFiles
    BY <2>1, SameKnown
  <2>3. ASSUME ~together', NEW b \in Actor PROVE Purging(b)'
    BY <2>1, <2>2, <2>3, PurgingElsewhere, PurgingStays, OthersNoted DEF Writing, Erasing
  <2>. QED BY <2>3 DEF PurgeSound
<1>5. ASSUME NEW a \in Actor, Reads(a) PROVE PurgeSound'
  <2>. SUFFICES ASSUME ~together, NEW b \in Actor PROVE Purging(b)'
    BY <1>5, ReadsUnchanged DEF PurgeSound, history
  <2>1. KnownFiles' = KnownFiles
    BY <1>5, ReadsUnchanged, SameKnown
  <2>. QED BY <1>5, <2>1, ReadsShaped, ReadsPurging, OthersNoted, PurgingStays
<1>6. ASSUME NEW a \in Actor, Unlink(a) PROVE PurgeSound'
  <2>1. store' = store /\ together' = together
    BY <1>6 DEF Unlink, history
  <2>2. Others(a) /\ job'[a].at = "idle"
    BY <1>6, StopsEffect, IdleFacts DEF Unlink
  <2>. QED BY <2>1, <2>2, OthersNoted, PurgeQuiet DEF Writing, Erasing
<1>7. ASSUME NEW stopped \in SUBSET Actor, StopAll(stopped) PROVE PurgeSound'
  <2>1. store' = store /\ together' = together /\ \A b \in Actor : job'[b] = IF b \in stopped THEN Idle ELSE job[b]
    BY <1>7, StopAllEffect DEF StopAll
  <2>2. \A b \in Actor : job[b] \in Job
    BY JobNow
  <2>. QED BY <2>1, <2>2, SameIsNoted, IdleFacts, PurgeQuiet DEF Writing, Erasing
<1>8. ASSUME NEW a \in Actor, WipeCut(a) PROVE PurgeSound'
  <2>. SUFFICES ASSUME ~together, NEW b \in Actor PROVE Purging(b)'
    BY <1>8, WipeCutEffect DEF PurgeSound
  <2>1. KnownFiles' \subseteq KnownFiles
    BY <1>8, WipeCutEffect DEF KnownFiles, Known, Exists, Source
  <2>2. CASE job'[b] = Idle
    BY <2>2, IdleFacts, PurgingElsewhere DEF Writing, Erasing
  <2>3. CASE job'[b] = job[b]
    BY <2>1, <2>3, SameIsNoted, PurgingStays, JobNow
  <2>. QED BY <1>8, <2>2, <2>3, WipeCutEffect
<1>. QED BY <1>1, <1>2, <1>3, <1>4, <1>5, <1>6, <1>7, <1>8, CommitsPurge, StepCases DEF Starts

(***************************************************************************)
(* The embedding model of the store.                                       *)
(***************************************************************************)

(* The three parts of ModelSound. *)
Labelled == store.identity # None =>
  AllOf(store.identity) /\ \A a \in Actor : Past(a) => job[a].model = store.identity
Vouched == store.identity = None /\ AllChunks # {} =>
  \E a \in Actor : Past(a) /\ job[a].open /\ AllOf(job[a].model)

LEMMA ModelParts == ModelSound <=> (Exists /\ faults = 0 /\ ~together => Labelled /\ Vouched)
BY DEF ModelSound, Labelled, Vouched

LEMMA ModelClosed ==
  ASSUME Exists' /\ faults' = 0 => (\A s \in Source : store'.chunks[s] = {}) /\ store'.identity = None
  PROVE  ModelSound'
<1>. SUFFICES ASSUME Exists', faults' = 0 PROVE ModelSound'
  BY DEF ModelSound
<1>1. AllChunks' = {} /\ store'.identity = None
  BY DEF AllChunks
<1>. QED BY <1>1 DEF ModelSound

LEMMA ClosedEmpty ==
  ASSUME Sound, Exists, ~Opens, faults = 0
  PROVE  (\A s \in Source : store.chunks[s] = {}) /\ store.identity = None
BY DEF Sound, ClosedIsBare, TornByFault

(* A store that does not open, and that the step leaves alone.             *)
LEMMA ModelStaysClosed == ASSUME Sound, ~Opens, store' = store, faults' = faults PROVE ModelSound'
BY ClosedEmpty, ModelClosed DEF Exists

(* A job stays past the check, or stays before it.                         *)
PastStays(b) ==
  (Past(b)' <=> Past(b)) /\ (Past(b) => job'[b].model = job[b].model /\ (job[b].open => job'[b].open))

LEMMA ModelShrinks ==
  ASSUME Sound, faults' = faults, together => together', Exists, store'.identity = store.identity,
         \A s \in Source : store'.chunks[s] \subseteq store.chunks[s],
         \A b \in Actor : PastStays(b)
  PROVE  ModelSound'
<1>. SUFFICES ASSUME faults = 0, ~together PROVE Labelled' /\ Vouched'
  BY DEF ModelSound, Labelled, Vouched
<1>1. Labelled /\ Vouched
  BY ModelParts DEF Sound
<1>2. AllChunks' \subseteq AllChunks
  BY DEF AllChunks
<1>3. Labelled'
  BY <1>1, <1>2 DEF Labelled, PastStays, AllOf
<1>4. Vouched'
  BY <1>1, <1>2 DEF Vouched, PastStays, AllOf
<1>. QED BY <1>3, <1>4

LEMMA NotedPast == ASSUME NEW b, Noted(job[b], job'[b]) PROVE PastStays(b)
BY NotedFields DEF PastStays, Past, Ingesting

LEMMA NeverPast == ASSUME NEW b, ~Past(b), ~Past(b)' PROVE PastStays(b)
BY DEF PastStays

LEMMA ModelQuiet ==
  ASSUME Sound, faults' = faults, together => together', store' = store,
         Opens => \A b \in Actor : PastStays(b)
  PROVE  ModelSound'
<1>1. CASE Opens
  BY <1>1, ModelShrinks DEF Opens
<1>2. CASE ~Opens
  BY <1>2, ModelStaysClosed
<1>. QED BY <1>1, <1>2

LEMMA ReadsPast ==
  ASSUME IngestionTypeOK, Sound, NEW a \in Actor, Reads(a), Opens
  PROVE  \A b \in Actor : PastStays(b)
<1>1. \A b \in Actor \ {a} : PastStays(b)
  BY ReadsShaped, OthersNoted, NotedPast
<1>2. PastStays(a)
  <2>1. ~Gone(a)
    BY DEF Gone
  <2>2. CASE Classify(a) \/ Extract(a) \/ Hash(a)
    <3>1. /\ job[a].at \in {"classifying", "extracting", "hashing"}
          /\ job'[a].at \in {"extracting", "hashing", "storing"}
          /\ job'[a].kind = job[a].kind /\ job'[a].model = job[a].model /\ job'[a].open = job[a].open
      BY <2>2, ClassifyEffect, ExtractEffect, HashEffect DEF SameBut, Fields
    <3>. QED BY <3>1 DEF PastStays, Past, Ingesting
  <2>3. CASE Proceed(a)
    <3>1. /\ job[a].at = "storing" /\ job'[a].at \in {"purging", "recording", "fetching"}
          /\ job'[a].kind = job[a].kind /\ job'[a].model = job[a].model /\ job'[a].open = job[a].open
      BY <2>3, ProceedEffect DEF SameBut, Fields
    <3>. QED BY <3>1 DEF PastStays, Past, Ingesting
  <2>4. CASE Fetch(a)
    <3>1. /\ job[a].at = "fetching" /\ job'[a].at = "storing"
          /\ job'[a].kind = job[a].kind /\ job'[a].model = job[a].model /\ job'[a].open = job[a].open
      BY <2>4, FetchEffect DEF SameBut, Fields
    <3>. QED BY <3>1 DEF PastStays, Past, Ingesting
  <2>5. CASE PurgeDone(a)
    <3>1. /\ job[a].at = "purging"
          /\ job[a].kind = "delete" \/ job'[a].at \in {"recording", "fetching"}
          /\ job'[a].kind = job[a].kind /\ job'[a].model = job[a].model /\ job'[a].open = job[a].open
      BY <2>5, PurgeDoneEffect DEF SameBut, Fields
    <3>. QED BY <3>1 DEF PastStays, Past, Ingesting
  <2>6. CASE ReadManifest(a)
    BY <2>6, ReadManifestEffect DEF PastStays, Past, Ingesting
  <2>. QED BY <2>1, <2>2, <2>3, <2>4, <2>5, <2>6 DEF Reads
<1>. QED BY <1>1, <1>2

(* The one ingest there is.                                                *)
LEMMA OnlyPast ==
  ASSUME Sound, ~together, NEW a \in Actor, Ingesting(a)
  PROVE  \A b \in Actor : Past(b) => b = a
BY DEF Sound, OneAtATime, Past

LEMMA CheckModelModel ==
  ASSUME IngestionTypeOK, Sound, NEW a \in Actor, CheckModel(a)
  PROVE  ModelSound'
<1>1. /\ Others(a) /\ job[a].at = "checking" /\ faults' = faults /\ together' = together
      /\ job[a].model \in Model /\ job[a].kind # "delete"
  BY CheckModelEffect, JobNow DEF CheckModel, world, history, Shaped, Erasing, Listing
<1>2. \A b \in Actor \ {a} : PastStays(b)
  BY <1>1, OthersNoted, NotedPast
<1>3. ~Past(a) /\ Ingesting(a)
  BY <1>1 DEF Past, Ingesting
<1>4. CASE store' = store /\ job'[a].at \in {"idle", "wiping"}
  <2>1. ~Past(a)'
    BY <1>4 DEF Past, Ingesting
  <2>. QED BY <1>1, <1>2, <1>3, <1>4, <2>1, NeverPast, ModelQuiet
<1>5. CASE ~Exists /\ store' = store
  BY <1>5 DEF ModelSound, Exists
<1>6. CASE Checked(a) /\ Opens /\ (store' = store \/ Unlabelled)
            /\ store'.identity = job[a].model /\ store'.chunks = store.chunks
  <2>. SUFFICES ASSUME faults = 0, ~together PROVE Labelled' /\ Vouched'
    BY <1>1 DEF ModelSound, Labelled, Vouched
  <2>1. Labelled /\ Vouched
    BY <1>6, ModelParts DEF Sound, Opens
  <2>2. \A b \in Actor : ~Past(b)
    BY <1>3, OnlyPast
  <2>3. AllOf(job[a].model)
    BY <1>6, <2>1, <2>2 DEF Labelled, Vouched, Unlabelled, AllOf
  <2>4. \A b \in Actor : Past(b)' => b = a
    BY <1>2, <2>2 DEF PastStays
  <2>5. job'[a].model = job[a].model
    BY <1>6 DEF Checked, SameBut, Fields
  <2>6. store'.identity # None
    BY <1>1, <1>6
  <2>. QED BY <1>6, <2>3, <2>4, <2>5, <2>6 DEF Labelled, Vouched, AllOf, AllChunks
<1>7. \/ store' = store /\ job'[a].at \in {"idle", "wiping"}
      \/ ~Exists /\ store' = store
      \/ Checked(a) /\ Opens /\ (store' = store \/ Unlabelled)
            /\ store'.identity = job[a].model /\ store'.chunks = store.chunks
  <2>1. store' = Identified(job[a].model) /\ Opens => store'.identity = job[a].model /\ store'.chunks = store.chunks
    BY <1>1, IdentifiedContents DEF SameContents, Opens
  <2>. QED BY <2>1, CheckModelEffect, IdleFacts
<1>. QED BY <1>4, <1>5, <1>6, <1>7

LEMMA WipeModel ==
  ASSUME IngestionTypeOK, Sound, NEW a \in Actor, Wipe(a)
  PROVE  ModelSound'
BY WipeEffect, FreshContents, ModelClosed DEF Exists

LEMMA DropModel ==
  ASSUME IngestionTypeOK, Sound, NEW a \in Actor, Drop(a)
  PROVE  ModelSound'
<1>1. PICK s \in Source :
         /\ Others(a) /\ job[a].at = "storing" /\ job'[a].at = "dropped" /\ job'[a].open
         /\ SameBut(job'[a], job[a], {"at", "current", "open"})
         /\ store' = Replaced(s)
  BY DropEffect
<1>2. PastStays(a)
  BY <1>1 DEF PastStays, Past, Ingesting, SameBut, Fields
<1>3. \A b \in Actor : PastStays(b)
  BY <1>1, <1>2, OthersNoted, NotedPast
<1>4. faults' = faults /\ together' = together
  BY CommitDisk DEF Commits
<1>5. CASE Opens
  <2>1. store'.identity = store.identity /\ \A r \in Source : store'.chunks[r] \subseteq store.chunks[r]
    BY <1>1, <1>5, ReplacedContents DEF Opens
  <2>. QED BY <1>3, <1>4, <1>5, <2>1, ModelShrinks DEF Opens
<1>6. CASE ~Opens
  <2>1. faults = 0 => (\A r \in Source : store'.chunks[r] = {}) /\ store'.identity = None
    BY <1>1, <1>6, ReplacedContents, ClosedEmpty
  <2>. QED BY <1>4, <2>1, ModelClosed
<1>. QED BY <1>5, <1>6

LEMMA AddModel ==
  ASSUME IngestionTypeOK, Sound, NEW a \in Actor, Add(a)
  PROVE  ModelSound'
<1>. DEFINE s == job[a].current
            chunk == [text |-> job[a].text[s], model |-> job[a].model]
<1>1. /\ Others(a) /\ job[a].at = "dropped" /\ job'[a].at = "added" /\ SameBut(job'[a], job[a], {"at"})
      /\ s \in Source /\ job[a].text[s] \in Text /\ job[a].model \in Model /\ job[a].open
      /\ store' = Added(s, chunk) /\ Opens
  BY AddEffect
<1>2. chunk \in Chunk /\ chunk.model = job[a].model
  BY <1>1 DEF Chunk
<1>. HIDE DEF s, chunk
<1>3. /\ store'.identity = store.identity
      /\ \A r \in Source : store'.chunks[r] \subseteq store.chunks[r] \cup {chunk}
  BY <1>1, <1>2, AddedContents DEF SameStore
<1>4. Past(a)
  BY <1>1, JobNow DEF Past, Ingesting, Shaped, Erasing, Listing
<1>5. PastStays(a)
  BY <1>1 DEF PastStays, Past, Ingesting, SameBut, Fields
<1>6. \A b \in Actor : PastStays(b)
  BY <1>1, <1>5, OthersNoted, NotedPast
<1>7. faults' = faults /\ together' = together
  BY CommitDisk DEF Commits
<1>. SUFFICES ASSUME faults = 0, ~together PROVE Labelled' /\ Vouched'
  BY <1>7 DEF ModelSound, Labelled, Vouched
<1>8. Labelled /\ Vouched
  BY <1>1, ModelParts DEF Sound, Opens
<1>9. \A b \in Actor : Past(b) => b = a
  BY <1>4, OnlyPast DEF Past
<1>10. AllChunks' \subseteq AllChunks \cup {chunk}
  BY <1>3 DEF AllChunks
<1>11. AllOf(job[a].model)
  BY <1>4, <1>8, <1>9 DEF Labelled, Vouched, AllOf
<1>12. AllOf(job[a].model)'
  <2>1. job'[a].model = job[a].model
    BY <1>4, <1>5 DEF PastStays
  <2>. QED BY <1>2, <1>10, <1>11, <2>1 DEF AllOf
<1>13. Past(a)' /\ job'[a].open /\ job'[a].model = job[a].model
  BY <1>1, <1>4, <1>5 DEF PastStays
<1>14. Vouched'
  BY <1>12, <1>13 DEF Vouched
<1>15. Labelled'
  <2>1. store.identity # None => store.identity = job[a].model
    BY <1>4, <1>8 DEF Labelled
  <2>2. \A b \in Actor : Past(b)' => b = a
    BY <1>6, <1>9 DEF PastStays
  <2>. QED BY <1>3, <1>12, <1>13, <2>1, <2>2 DEF Labelled, AllOf
<1>. QED BY <1>14, <1>15

LEMMA LaterModel ==
  ASSUME IngestionTypeOK, Sound, NEW a \in Actor, Label(a) \/ Empty(a) \/ Forget(a)
  PROVE  ModelSound'
<1>1. /\ Others(a) /\ Opens
      /\ job[a].at \in {"added", "purging", "emptied"} /\ job'[a].at \in {"storing", "purging", "emptied"}
      /\ job'[a].kind = job[a].kind /\ job'[a].model = job[a].model /\ job'[a].open = job[a].open
  <2>1. CASE Label(a)
    BY <2>1, LabelEffect DEF SameBut, Fields
  <2>2. CASE Empty(a)
    BY <2>2, EmptyEffect DEF SameBut, Fields
  <2>3. CASE Forget(a)
    BY <2>3, ForgetEffect DEF SameBut, Fields
  <2>. QED BY <2>1, <2>2, <2>3
<1>2. store'.identity = store.identity /\ \A r \in Source : store'.chunks[r] \subseteq store.chunks[r]
  <2>1. CASE Label(a)
    <3>1. job[a].current \in Source /\ job[a].hash[job[a].current] \in Content \cup {None}
      BY <2>1, LabelEffect, JobNow, JobFields
    <3>. QED BY <2>1, <3>1, LabelEffect, HashedContents DEF SameStore
  <2>2. CASE Empty(a)
    BY <2>2, EmptyEffect, ClearedContents DEF SameStore
  <2>3. CASE Forget(a)
    BY <2>3, ForgetEffect, HashedContents DEF SameStore
  <2>. QED BY <2>1, <2>2, <2>3
<1>3. PastStays(a)
  BY <1>1 DEF PastStays, Past, Ingesting
<1>4. \A b \in Actor : PastStays(b)
  BY <1>1, <1>3, OthersNoted, NotedPast
<1>5. faults' = faults /\ together' = together
  BY CommitDisk DEF Commits
<1>. QED BY <1>1, <1>2, <1>4, <1>5, ModelShrinks DEF Opens

LEMMA RecordModelModel ==
  ASSUME IngestionTypeOK, Sound, NEW a \in Actor, RecordModel(a)
  PROVE  ModelSound'
<1>1. /\ Others(a) /\ job[a].at = "recording" /\ job'[a].at \in {"idle", "manifest"}
      /\ store' = (IF Opens /\ (job[a].open \/ job[a].force) THEN Identified(job[a].model) ELSE store)
      /\ job[a].model \in Model /\ job[a].kind # "delete"
  BY RecordEffect, IdleFacts, JobNow DEF Shaped, Erasing, Listing
<1>2. Past(a) /\ Ingesting(a) /\ ~Past(a)'
  BY <1>1 DEF Past, Ingesting
<1>3. faults' = faults /\ together' = together
  BY CommitDisk DEF Commits
<1>4. CASE ~Opens
  BY <1>1, <1>3, <1>4, ModelStaysClosed
<1>5. CASE Opens
  <2>. SUFFICES ASSUME faults = 0, ~together PROVE Labelled' /\ Vouched'
    BY <1>3 DEF ModelSound, Labelled, Vouched
  <2>1. Labelled /\ Vouched
    BY <1>5, ModelParts DEF Sound, Opens
  <2>2. \A b \in Actor : Past(b) => b = a
    BY <1>2, OnlyPast
  <2>3. \A b \in Actor : ~Past(b)'
    BY <1>1, <1>2, <2>2, OthersNoted, NotedPast DEF PastStays
  <2>4. CASE store' = store /\ ~job[a].open
    BY <2>1, <2>2, <2>3, <2>4 DEF Labelled, Vouched, AllOf, AllChunks
  <2>5. CASE store' = Identified(job[a].model)
    <3>1. store'.identity = job[a].model /\ store'.chunks = store.chunks
      BY <1>1, <1>5, <2>5, IdentifiedContents DEF SameContents, Opens
    <3>2. AllOf(job[a].model)
      BY <1>2, <2>1, <2>2 DEF Labelled, Vouched, AllOf
    <3>. QED BY <1>1, <2>3, <3>1, <3>2 DEF Labelled, Vouched, AllOf, AllChunks
  <2>. QED BY <1>1, <1>5, <2>4, <2>5
<1>. QED BY <1>4, <1>5

LEMMA WriteManifestModel ==
  ASSUME IngestionTypeOK, Sound, NEW a \in Actor, WriteManifest(a)
  PROVE  ModelSound'
<1>. DEFINE managed == IF job[a].kind = "managed" THEN job[a].saved \cup (job[a].done \cap File)
                       ELSE job[a].saved \ job[a].sources
<1>1. Opens /\ managed \subseteq Source /\ (store' = Listed(managed) \/ store' = store)
  BY WriteManifestWrites
<1>. HIDE DEF managed
<1>2. store'.identity = store.identity /\ store'.chunks = store.chunks
  BY <1>1, ListedContents DEF SameContents, Opens
<1>3. Others(a) /\ Shaped(job'[a]) /\ job[a].at = "rewriting" /\ job'[a].at \in {"idle", "unlinking"} /\ job'[a] \in Job
  BY WriteManifestEffect, IdleFacts
<1>4. ~Past(a) /\ ~Past(a)'
  BY <1>3, JobFields DEF Past, Ingesting, Shaped, Kind
<1>5. \A b \in Actor : PastStays(b)
  BY <1>3, <1>4, NeverPast, OthersNoted, NotedPast
<1>6. faults' = faults /\ together' = together
  BY CommitDisk DEF Commits
<1>. QED BY <1>1, <1>2, <1>5, <1>6, ModelShrinks DEF Opens

LEMMA ModelStep ==
  ASSUME IngestionTypeOK, Sound, IngestionNext
  PROVE  ModelSound'
<1>1. ASSUME NEW s \in Source, Edit(s) PROVE ModelSound'
  <2>1. store' = store /\ together' = together /\ faults' = faults
    BY <1>1 DEF Edit, history
  <2>. QED BY <1>1, <2>1, EditEffect, NotedPast, ModelQuiet
<1>2. ASSUME NEW a \in Actor, StartRun(a) \/ StartDelete(a) PROVE ModelSound'
  <2>1. store' = store /\ together' = together /\ faults' = faults /\ job[a].at = "idle"
    BY <1>2, BegunFromNone DEF StartRun, StartDelete, history
  <2>2. Others(a) /\ (job'[a].at = "resolved" \/ job'[a].kind = "delete")
    BY <1>2, StartRunEffect, StartDeleteEffect
  <2>3. PastStays(a)
    BY <2>1, <2>2, NeverPast DEF Past, Ingesting
  <2>. QED BY <2>1, <2>2, <2>3, OthersNoted, NotedPast, ModelQuiet
<1>3. ASSUME NEW a \in Actor, StartManaged(a) PROVE ModelSound'
  <2>1. store' = store /\ together' = together /\ faults' = faults /\ job[a].at = "idle"
    BY <1>3, BegunFromNone DEF StartManaged
  <2>2. job'[a].at = "resolved" /\ \A b \in Actor \ {a} : Noted(job[b], job'[b])
    BY <1>3, StartManagedEffect
  <2>3. PastStays(a)
    BY <2>1, <2>2, NeverPast DEF Past, Ingesting
  <2>. QED BY <2>1, <2>2, <2>3, NotedPast, ModelQuiet
<1>4. ASSUME NEW a \in Actor, Acquire(a) PROVE ModelSound'
  <2>1. /\ store' = store /\ faults' = faults /\ Others(a) /\ job[a].at = "resolved"
        /\ job'[a].at \in {"idle", "checking"}
        /\ together => together'
    BY <1>4, AcquireEffect, IdleFacts DEF Acquire, world
  <2>2. PastStays(a)
    BY <2>1, NeverPast DEF Past, Ingesting
  <2>. QED BY <2>1, <2>2, OthersNoted, NotedPast, ModelQuiet
<1>5. ASSUME NEW a \in Actor, Reads(a) PROVE ModelSound'
  BY <1>5, ReadsUnchanged, ReadsPast, ModelQuiet DEF world, history
<1>6. ASSUME NEW a \in Actor, Commits(a) PROVE ModelSound'
  BY <1>6, CheckModelModel, WipeModel, DropModel, AddModel, LaterModel, RecordModelModel, WriteManifestModel
     DEF Commits
<1>7. ASSUME NEW a \in Actor, Unlink(a) PROVE ModelSound'
  <2>1. store' = store /\ together' = together /\ faults' = faults
    BY <1>7 DEF Unlink, history
  <2>2. Others(a) /\ job'[a].at = "idle" /\ job[a].at = "unlinking"
    BY <1>7, StopsEffect, IdleFacts DEF Unlink
  <2>3. ~Past(a) /\ ~Past(a)'
    BY <2>2, JobNow, JobFields DEF Past, Ingesting, Shaped, Kind
  <2>. QED BY <2>1, <2>2, <2>3, NeverPast, OthersNoted, NotedPast, ModelQuiet
<1>8. ASSUME NEW stopped, StopAll(stopped) PROVE ModelSound'
  <2>1. faults' # 0
    BY <1>8 DEF StopAll, IngestionTypeOK
  <2>. QED BY <2>1 DEF ModelSound
<1>9. ASSUME NEW a \in Actor, WipeCut(a) PROVE ModelSound'
  BY <1>9, WipeCutEffect DEF ModelSound, IngestionTypeOK
<1>. QED BY <1>1, <1>2, <1>3, <1>4, <1>5, <1>6, <1>7, <1>8, <1>9, StepCases DEF Starts

(***************************************************************************)
(* The invariant, and what follows from it.                                *)
(***************************************************************************)

LEMMA IngestionStarts == IngestionInit => IngestionTypeOK /\ Sound
<1>. SUFFICES ASSUME IngestionInit PROVE IngestionTypeOK /\ Sound
  OBVIOUS
<1>1. /\ store = None /\ edits = 0 /\ jobs = 0 /\ faults = 0 /\ home \in [Actor -> Process]
      /\ job = [a \in Actor |-> Idle]
      /\ raced = {} /\ torn = {} /\ crossed = {} /\ kept = {} /\ late = {} /\ contended = {} /\ together = FALSE
      /\ disk \in [Source -> Content \cup {None}]
  BY DEF IngestionInit, Content
<1>2. job \in [Actor -> Job] /\ \A a \in Actor : job[a] = Idle
  BY <1>1, IdleFacts
<1>3. ~Exists /\ ~Opens /\ Manifest = {}
  BY <1>1 DEF Exists, Opens, Manifest
<1>4. IngestionTypeOK
  <2>1. store \in Store \cup {None} /\ edits \in Nat /\ faults \in Nat
    BY <1>1
  <2>4. jobs \in 0 .. MaxJob
    BY <1>1 DEF IngestionAssumption
  <2>5. together \in BOOLEAN
    BY <1>1
  <2>2. /\ kept \subseteq Source /\ raced \subseteq Source /\ torn \subseteq Source
        /\ crossed \subseteq Source /\ late \subseteq Source /\ contended \subseteq Source
    BY <1>1
  <2>3. disk \in [Source -> Content \cup {None}] /\ home \in [Actor -> Process]
    BY <1>1
  <2>. QED BY <1>2, <2>1, <2>2, <2>3, <2>4, <2>5 DEF IngestionTypeOK
<1>5. AllShaped /\ ReadIsThere /\ HalfWritten /\ OneAtATime /\ PurgeSound
  BY <1>2, IdleFacts DEF AllShaped, ReadIsThere, HalfWritten, OneAtATime, Ingesting, PurgeSound, Purging,
                         Writing, Erasing
<1>6. ManifestSound
  BY <1>1, <1>2, <1>3, IdleFacts DEF ManifestSound
<1>7. ClosedIsBare /\ TornByFault /\ HashTellsContent /\ ModelSound
  BY <1>1, <1>3 DEF ClosedIsBare, TornByFault, HashTellsContent, ModelSound
<1>. QED BY <1>4, <1>5, <1>6, <1>7 DEF Sound

LEMMA IngestionStutters ==
  ASSUME IngestionTypeOK, Sound, UNCHANGED ingestionVars
  PROVE  IngestionTypeOK' /\ Sound'
<1>1. /\ UNCHANGED <<disk, store, home, job, edits, jobs, faults>>
      /\ UNCHANGED <<kept, raced, torn, crossed, late, contended, together>>
  BY DEF ingestionVars, history, writing, registering
<1>2. IngestionTypeOK'
  BY <1>1 DEF IngestionTypeOK
<1>3. AllShaped' /\ ReadIsThere' /\ ClosedIsBare' /\ TornByFault' /\ OneAtATime'
  BY <1>1 DEF Sound, AllShaped, ReadIsThere, ClosedIsBare, TornByFault, OneAtATime, Present, Exists, Opens, Ingesting
<1>4. HashTellsContent' /\ HalfWritten'
  BY <1>1 DEF Sound, HashTellsContent, HalfWritten, AloneOn, Chunks, Exists, Opens
<1>5. ManifestSound' /\ PurgeSound'
  BY <1>1 DEF Sound, ManifestSound, Manifest, PurgeSound, Purging, Unresolved, Known, Present, Exists, Opens
<1>6. ModelSound'
  BY <1>1 DEF Sound, ModelSound, AllOf, AllChunks, Past, Ingesting, Exists
<1>. QED BY <1>2, <1>3, <1>4, <1>5, <1>6 DEF Sound

LEMMA IngestionIsSound == IngestionSpec => [](IngestionTypeOK /\ Sound)
<1>1. IngestionInit => IngestionTypeOK /\ Sound
  BY IngestionStarts
<1>2. IngestionTypeOK /\ Sound /\ [IngestionNext]_ingestionVars => (IngestionTypeOK /\ Sound)'
  <2>. SUFFICES ASSUME IngestionTypeOK, Sound, [IngestionNext]_ingestionVars
                PROVE  IngestionTypeOK' /\ Sound'
    OBVIOUS
  <2>1. CASE IngestionNext
    BY <2>1, ShapesStep, ReadStep, ClosedStep, TornStep, ContentsStep, ManifestStep, LockStep, PurgeStep, ModelStep
       DEF Sound
  <2>2. CASE UNCHANGED ingestionVars
    BY <2>2, IngestionStutters
  <2>. QED BY <2>1, <2>2
<1>. QED BY <1>1, <1>2, PTL DEF IngestionSpec

(* Types, for every number of actors, processes and sources.               *)
THEOREM IngestionTypeCorrect == IngestionSpec => []IngestionTypeOK
<1>1. IngestionTypeOK /\ Sound => IngestionTypeOK
  OBVIOUS
<1>. QED BY <1>1, IngestionIsSound, PTL

(* The hash of a source tells its chunks, so an ingest that skips it by    *)
(* its hash skips what it has (_check_cached_hash, replace_source).        *)
THEOREM HashAlwaysTells == IngestionSpec => []HashTellsContent
<1>1. IngestionTypeOK /\ Sound => HashTellsContent
  BY DEF Sound
<1>. QED BY <1>1, IngestionIsSound, PTL

(* The chunks of one store are of one model (EmbeddingModelChangedError),  *)
(* as long as no ingest is cut short or runs beside another.               *)
THEOREM ModelsNeverMix == IngestionSpec => []OneModel
<1>1. IngestionTypeOK /\ Sound => OneModel
  BY DEF Sound, ModelSound, OneModel, AllOf, AllChunks
<1>. QED BY <1>1, IngestionIsSound, PTL

(* An uploaded file stays in the manifest and is spared by the purges of   *)
(* the runs that could have known it (resolve_sources, _purge_deleted); a  *)
(* page of the dashboard is never in it (run_ingest_managed).              *)
THEOREM ManagedAlwaysKept == IngestionSpec => []ManagedKept
<1>1. IngestionTypeOK /\ Sound => ManagedKept
  <2>. SUFFICES ASSUME IngestionTypeOK, Sound PROVE ManagedIsSpared /\ ManifestIsKept /\ PagesAreNot
    BY DEF ManagedKept
  <2>1. ManagedIsSpared
    <3>. SUFFICES ASSUME Opens, NEW a \in Actor, job[a].kind = "run", job[a].at \in {"purging", "emptied"}
                  PROVE  job[a].todo \cap store.managed
                           \subseteq late \cup contended \cup {s \in Source : ~Present(s)}
      BY DEF ManagedIsSpared
    <3>1. job[a].todo \subseteq File \ job[a].sources
      BY JobNow DEF Shaped, Erasing
    <3>2. store.managed \ job[a].sources \subseteq Url \cup late \cup contended \cup {s \in Source : ~Present(s)}
      BY DEF Sound, ManifestSound, Manifest
    <3>. QED BY <3>1, <3>2
  <2>2. ManifestIsKept
    BY DEF Sound, ManifestSound, Manifest, ManifestIsKept
  <2>3. PagesAreNot
    BY DEF Sound, ManifestSound, Manifest, ClosedIsBare, PagesAreNot, Uploads
  <2>. QED BY <2>1, <2>2, <2>3
<1>. QED BY <1>1, IngestionIsSound, PTL

(* A run that reaches its end has purged the files it did not resolve, but *)
(* for one that read nothing from any of its files (_purge_deleted).       *)
THEOREM RunAlwaysPurges == IngestionSpec => []RunPurges
<1>1. IngestionTypeOK /\ Sound => RunPurges
  BY DEF Sound, PurgeSound, Purging, RunPurges
<1>. QED BY <1>1, IngestionIsSound, PTL
=============================================================================
