----------------------------- MODULE Approvals -----------------------------
(***************************************************************************)
(* One run whose tool calls need a human's approval.  The run pauses, its  *)
(* pending calls are kept as rows of pending_approvals, and a resume of    *)
(* services/execution.py executes the approved ones, resolves the rows and *)
(* keeps the rows of the pause that may follow.                            *)
(*                                                                         *)
(* Every row is a commit of its own.  The command line, the dashboard and  *)
(* the server show the rows to a human before the resume reads them again; *)
(* nothing keeps two resumes of a run apart, and any may die at any point. *)
(* An exception that leaves a resume is such a death.                      *)
(***************************************************************************)
EXTENDS Integers, FiniteSets

CONSTANTS
  Call,      \* tool calls the model may make; their ids are never reused
  Resumer,   \* processes that pause or resume the run
  Server,    \* those of them that are the HTTP server
  MaxPause,  \* bound: pauses of the run
  MaxFault,  \* bound: resumers that die and writes that fail
  NoRow      \* no row for a call

ASSUME ApprovalsAssumption ==
  /\ Server \subseteq Resumer
  /\ MaxPause \in Nat \ {0} /\ MaxFault \in Nat

Pause == 1 .. MaxPause
Decision == {"approve", "deny"}
Row == [pause : Pause, decision : Decision \cup {"none"}]

ASSUME RowAssumption == NoRow \notin Row

At == {"idle", "decided", "loaded", "resolving", "persisting", "again"}
Resume == [at : At, approvals : SUBSET Call, denials : SUBSET Call,
           pause : Pause \cup {0}, next : Pause \cup {0}, todo : SUBSET Call]
Idle == [at |-> "idle", approvals |-> {}, denials |-> {}, pause |-> 0, next |-> 0, todo |-> {}]

VARIABLES
  rows,     \* pending_approvals, the rows of this run
  batch,    \* the calls of each pause, in the history the rows of it carry
  pauses,   \* pauses so far
  resume,   \* what each resumer is doing
  executed, \* how often each call has been executed
  faults,   \* faults so far
  consumed, \* history: pauses whose calls a resume has answered
  overlap,  \* history: calls two resumes had loaded at the same time
  torn,     \* history: calls of a resume that answered them and left some unresolved
  unsaved   \* history: calls whose row was not written when it should be

history == <<consumed, overlap, torn, unsaved>>
vars == <<rows, batch, pauses, resume, executed, faults, history>>

TypeOK ==
  /\ rows \in [Call -> Row \cup {NoRow}]
  /\ batch \in [Pause -> SUBSET Call]
  /\ pauses \in Pause \cup {0}
  /\ resume \in [Resumer -> Resume]
  /\ executed \in [Call -> Nat]
  /\ faults \in 0 .. MaxFault
  /\ consumed \subseteq Pause
  /\ overlap \subseteq Call /\ torn \subseteq Call /\ unsaved \subseteq Call

Asked == UNION {batch[p] : p \in Pause}
Unresolved == {c \in Call : rows[c] # NoRow /\ rows[c].decision = "none"}
Decided(r) == resume[r].approvals \cup resume[r].denials

(* The first run of the agent has paused, and its rows are to be written. *)
Init ==
  /\ rows = [c \in Call |-> NoRow]
  /\ pauses = 1
  /\ \E r \in Resumer, calls \in SUBSET Call \ {{}} :
       /\ batch = [p \in Pause |-> IF p = 1 THEN calls ELSE {}]
       /\ resume = [q \in Resumer |->
            IF q = r THEN [Idle EXCEPT !.at = "persisting", !.next = 1, !.todo = calls] ELSE Idle]
  /\ executed = [c \in Call |-> 0]
  /\ faults = 0
  /\ consumed = {} /\ overlap = {} /\ torn = {} /\ unsaved = {}

Becomes(r, hand) == resume' = [resume EXCEPT ![r] = hand]
Ticks(r, c) == Becomes(r, [resume[r] EXCEPT !.todo = @ \ {c}])

(* Mutant: the answers are for the calls of the history a row carries. *)
DecideHistory(r) ==
  /\ resume[r] = Idle /\ Unresolved # {}
  /\ \E calls \in {batch[rows[c].pause] : c \in Unresolved} : \E approvals \in SUBSET calls :
       Becomes(r, [resume[r] EXCEPT !.at = "decided", !.approvals = approvals,
                                    !.denials = calls \ approvals])
  /\ UNCHANGED <<rows, batch, pauses, executed, faults, history>>

(* A human answers every call the list shows. *)
Decide(r) ==
  /\ resume[r] = Idle /\ Unresolved # {}
  /\ \E approvals \in SUBSET Unresolved :
       Becomes(r, [resume[r] EXCEPT !.at = "decided", !.approvals = approvals,
                                    !.denials = Unresolved \ approvals])
  /\ UNCHANGED <<rows, batch, pauses, executed, faults, history>>

Reset(r) == Becomes(r, Idle)

(* Nothing is left to answer, or something the human was not asked. *)
Refuse(r) ==
  /\ resume[r].at = "decided"
  /\ Unresolved = {} \/ ~(Unresolved \subseteq Decided(r))
  /\ Reset(r)
  /\ UNCHANGED <<rows, batch, pauses, executed, faults, history>>

(* The history is that of the oldest unresolved row; the rows of two       *)
(* pauses may have been written in any order.                              *)
Load(r) ==
  /\ resume[r].at = "decided"
  /\ Unresolved \subseteq Decided(r)
  /\ \E c \in Unresolved : Becomes(r, [resume[r] EXCEPT !.at = "loaded", !.pause = rows[c].pause])
  /\ overlap' = overlap \cup
       {c \in Decided(r) : \E q \in Resumer \ {r} :
          resume[q].at \in {"loaded", "resolving"} /\ c \in Decided(q)}
  /\ UNCHANGED <<rows, batch, pauses, executed, faults, consumed, torn, unsaved>>

(* PydanticAI takes the decisions only when they are those of the calls    *)
(* the history ends with.                                                  *)
Fits(r) == Decided(r) = batch[resume[r].pause]

Mismatch(r) ==
  /\ resume[r].at = "loaded" /\ ~Fits(r)
  /\ Reset(r)
  /\ UNCHANGED <<rows, batch, pauses, executed, faults, history>>

Runs(r) == resume[r].approvals

Executes(r, calls) ==
  /\ resume[r].at = "loaded" /\ Fits(r)
  /\ executed' = [c \in Call |-> IF c \in calls THEN executed[c] + 1 ELSE executed[c]]
  /\ consumed' = consumed \cup {resume[r].pause}

(* Mutant: the rows of a run that ended are left as they were. *)
CompleteUnresolved(r) ==
  /\ \E calls \in SUBSET Runs(r) : Executes(r, calls)
  /\ Reset(r)
  /\ UNCHANGED <<rows, batch, pauses, faults, overlap, torn, unsaved>>

(* The run ends, well or with an error that is its result: a timeout, or a *)
(* model that cannot be reached, may leave approved calls unexecuted.      *)
Complete(r) ==
  /\ \E calls \in SUBSET Runs(r) : Executes(r, calls)
  /\ Becomes(r, [resume[r] EXCEPT !.at = "resolving", !.todo = Decided(r)])
  /\ UNCHANGED <<rows, batch, pauses, faults, overlap, torn, unsaved>>

(* The model asks for other calls that need approval. *)
PauseAgain(r) ==
  /\ pauses < MaxPause
  /\ Executes(r, Runs(r))
  /\ pauses' = pauses + 1
  /\ \E calls \in SUBSET (Call \ Asked) \ {{}} : batch' = [batch EXCEPT ![pauses'] = calls]
  /\ Becomes(r, [resume[r] EXCEPT !.at = "resolving", !.todo = Decided(r), !.next = pauses'])
  /\ UNCHANGED <<rows, faults, overlap, torn, unsaved>>

(* Mutant: the decision is written over one that stands. *)
OpenForAll(c) == rows[c] # NoRow

(* UPDATE ... WHERE resolved_at IS NULL *)
Open(c) == c \in Unresolved

DecisionOf(r, c) == IF c \in resume[r].approvals THEN "approve" ELSE "deny"

Resolve(r, c) ==
  /\ resume[r].at = "resolving" /\ c \in resume[r].todo
  /\ rows' = IF Open(c) THEN [rows EXCEPT ![c].decision = DecisionOf(r, c)] ELSE rows
  /\ Ticks(r, c)
  /\ UNCHANGED <<batch, pauses, executed, faults, history>>

(* Mutant: a pause that follows a pause is not written. *)
ResolvedAndDone(r) ==
  /\ resume[r].at = "resolving" /\ resume[r].todo = {}
  /\ Reset(r)
  /\ UNCHANGED <<rows, batch, pauses, executed, faults, history>>

Resolved(r) ==
  /\ resume[r].at = "resolving" /\ resume[r].todo = {}
  /\ IF resume[r].next = 0 THEN Reset(r)
     ELSE Becomes(r, [resume[r] EXCEPT !.at = "persisting", !.todo = batch[resume[r].next]])
  /\ UNCHANGED <<rows, batch, pauses, executed, faults, history>>

(* The primary key refuses a second row; the refusal is only logged. *)
Absent(c) == rows[c] = NoRow

Persist(r, c) ==
  /\ resume[r].at \in {"persisting", "again"} /\ c \in resume[r].todo
  /\ rows' = IF Absent(c)
             THEN [rows EXCEPT ![c] = [pause |-> resume[r].next, decision |-> "none"]] ELSE rows
  /\ unsaved' = unsaved \ {c}
  /\ Ticks(r, c)
  /\ UNCHANGED <<batch, pauses, executed, faults, consumed, overlap, torn>>

(* The server's response to a paused resume writes the rows once more. *)
Persisted(r) ==
  /\ resume[r].at \in {"persisting", "again"} /\ resume[r].todo = {}
  /\ IF resume[r].at = "persisting" /\ r \in Server
     THEN Becomes(r, [resume[r] EXCEPT !.at = "again", !.todo = batch[resume[r].next]])
     ELSE Reset(r)
  /\ UNCHANGED <<rows, batch, pauses, executed, faults, history>>

(* The database refuses a write; both writers only log it. *)
WriteFails(r, c) ==
  /\ faults < MaxFault /\ c \in resume[r].todo
  /\ faults' = faults + 1
  /\ IF resume[r].at = "resolving"
     THEN torn' = torn \cup Decided(r) /\ UNCHANGED unsaved
     ELSE /\ unsaved' = IF Absent(c) THEN unsaved \cup {c} ELSE unsaved
          /\ UNCHANGED torn
  /\ Ticks(r, c)
  /\ UNCHANGED <<rows, batch, pauses, executed, consumed, overlap>>

(* It dies between two steps, or an exception leaves it after the calls of *)
(* a loaded resume were executed.                                          *)
Dies(r) ==
  /\ resume[r] # Idle /\ faults < MaxFault
  /\ faults' = faults + 1
  /\ \/ /\ resume[r].at # "loaded"
        /\ UNCHANGED <<executed, consumed>>
     \/ \E calls \in SUBSET Runs(r) : Executes(r, calls)
  /\ torn' = IF resume[r].at = "loaded" \/ (resume[r].at = "resolving" /\ resume[r].todo # {})
             THEN torn \cup Decided(r) ELSE torn
  /\ unsaved' = unsaved \cup {c \in (IF resume[r].at = "resolving" /\ resume[r].next # 0
                                     THEN batch[resume[r].next]
                                     ELSE IF resume[r].at \in {"persisting", "again"}
                                     THEN resume[r].todo ELSE {}) : Absent(c)}
  /\ Reset(r)
  /\ UNCHANGED <<rows, batch, pauses, overlap>>

Next == \E r \in Resumer :
  \/ Decide(r) \/ Refuse(r) \/ Load(r) \/ Mismatch(r) \/ Complete(r) \/ PauseAgain(r)
  \/ Resolved(r) \/ Persisted(r) \/ Dies(r)
  \/ \E c \in Call : Resolve(r, c) \/ Persist(r, c) \/ WriteFails(r, c)

Spec == Init /\ [][Next]_vars

(***************************************************************************)
(* Properties.                                                             *)
(***************************************************************************)

(* A call is executed once, unless two resumes had it in hand at the same  *)
(* time, or one that answered its pause could not resolve all of its rows. *)
ExecutedOnce == \A c \in Call \ (overlap \cup torn) : executed[c] <= 1

(* What the approval history calls denied was never executed.              *)
DeniedStaysDenied ==
  \A c \in Call \ (overlap \cup torn) :
    rows[c] # NoRow /\ rows[c].decision = "deny" => executed[c] = 0

(* The decisions of the human are what happens.                            *)
Honoured == ExecutedOnce /\ DeniedStaysDenied

(* A decision that is recorded stands, whoever writes after it.            *)
DecisionStands ==
  [][\A c \in Call : rows[c] # NoRow /\ rows[c].decision # "none" => rows'[c] = rows[c]]_rows

Persisting(p) ==
  \E r \in Resumer : resume[r].at # "idle" /\ resume[r].next = p

(* A pause nobody has answered waits for its human: each of its calls has  *)
(* an open row, unless the write of the row was lost.                      *)
NothingForgotten ==
  \A p \in 1 .. pauses :
    p \notin consumed /\ ~Persisting(p) => batch[p] \ unsaved \subseteq Unresolved

(* No call is executed that no human was shown.                            *)
ShownBeforeExecuted ==
  \A p \in 1 .. pauses : (\E c \in batch[p] : executed[c] > 0) => \A c \in batch[p] : rows[c] # NoRow
=============================================================================
