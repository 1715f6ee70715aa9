-------------------------- MODULE ApprovalsProofs --------------------------
(***************************************************************************)
(* Proofs about Approvals, for any calls, any number of resumers, pauses   *)
(* and faults.                                                             *)
(***************************************************************************)
EXTENDS Approvals, TLAPS

USE ApprovalsAssumption, RowAssumption DEF Pause, Decision

(***************************************************************************)
(* What each step does to its resumer.                                     *)
(***************************************************************************)

Others(r) == \A q \in Resumer \ {r} : resume'[q] = resume[q]

(* A step of a resumer leaves the others as they are.                      *)
LEMMA OneBecomes ==
  ASSUME resume \in [Resumer -> Resume], NEW r \in Resumer, NEW hand \in Resume, Becomes(r, hand)
  PROVE  resume' \in [Resumer -> Resume] /\ resume'[r] = hand /\ Others(r)
BY DEF Becomes, Others

LEMMA ResetEffect ==
  ASSUME resume \in [Resumer -> Resume], NEW r \in Resumer, Reset(r)
  PROVE  /\ resume' \in [Resumer -> Resume] /\ Others(r)
         /\ resume'[r].at = "idle" /\ resume'[r].next = 0 /\ resume'[r].todo = {}
         /\ resume'[r].approvals = {} /\ resume'[r].denials = {}
<1>1. Idle \in Resume
  BY DEF Idle, Resume, At
<1>2. resume' \in [Resumer -> Resume] /\ resume'[r] = Idle /\ Others(r)
  BY <1>1, OneBecomes DEF Reset
<1>. QED BY <1>2 DEF Idle

LEMMA DecideEffect ==
  ASSUME resume \in [Resumer -> Resume], NEW r \in Resumer, Decide(r)
  PROVE  /\ resume' \in [Resumer -> Resume] /\ Others(r)
         /\ resume'[r].at = "decided" /\ resume'[r].next = 0
         /\ resume'[r].approvals \subseteq Unresolved
         /\ resume'[r].denials = Unresolved \ resume'[r].approvals
<1>1. PICK approvals \in SUBSET Unresolved :
        Becomes(r, [resume[r] EXCEPT !.at = "decided", !.approvals = approvals, !.denials = Unresolved \ approvals])
  BY DEF Decide
<1>. DEFINE y == [resume[r] EXCEPT !.at = "decided", !.approvals = approvals, !.denials = Unresolved \ approvals]
<1>a. resume[r] = Idle
  BY DEF Decide
<1>b. Idle.next = 0
  BY DEF Idle
<1>c. resume[r] \in Resume
  OBVIOUS
<1>2. resume[r] \in Resume /\ resume[r].next = 0
  BY <1>a, <1>b, <1>c
<1>3. Becomes(r, y)
  BY <1>1
<1>4. /\ y \in Resume /\ y.at = "decided" /\ y.next = 0
      /\ y.approvals = approvals /\ y.denials = Unresolved \ approvals
  BY <1>2 DEF Resume, At, Unresolved
<1>. HIDE DEF y
<1>. QED BY <1>3, <1>4, OneBecomes

LEMMA LoadEffect ==
  ASSUME TypeOK, NEW r \in Resumer, Load(r)
  PROVE  /\ resume' \in [Resumer -> Resume] /\ Others(r)
         /\ resume'[r].at = "loaded" /\ resume'[r].next = resume[r].next
         /\ resume'[r].approvals = resume[r].approvals /\ resume'[r].denials = resume[r].denials
         /\ \E c \in Unresolved : resume'[r].pause = rows[c].pause
<1>1. PICK c \in Unresolved : Becomes(r, [resume[r] EXCEPT !.at = "loaded", !.pause = rows[c].pause])
  BY DEF Load
<1>. DEFINE y == [resume[r] EXCEPT !.at = "loaded", !.pause = rows[c].pause]
<1>2. resume[r] \in Resume /\ rows[c].pause \in Pause
  BY <1>1 DEF TypeOK, Unresolved, Row
<1>3. /\ y \in Resume /\ y.at = "loaded" /\ y.next = resume[r].next /\ y.pause = rows[c].pause
      /\ y.approvals = resume[r].approvals /\ y.denials = resume[r].denials /\ Becomes(r, y)
  BY <1>1, <1>2 DEF Resume, At
<1>. HIDE DEF y
<1>. QED BY <1>1, <1>3, OneBecomes DEF TypeOK

(* A resumer that has answered resolves what it has decided.               *)
LEMMA AnswerEffect ==
  ASSUME TypeOK, NEW r \in Resumer, NEW n \in Pause \cup {0},
         \/ Becomes(r, [resume[r] EXCEPT !.at = "resolving", !.todo = Decided(r), !.next = n])
         \/ n = resume[r].next /\ Becomes(r, [resume[r] EXCEPT !.at = "resolving", !.todo = Decided(r)])
  PROVE  /\ resume' \in [Resumer -> Resume] /\ Others(r)
         /\ resume'[r].at = "resolving" /\ resume'[r].todo = Decided(r) /\ resume'[r].next = n
         /\ resume'[r].pause = resume[r].pause
         /\ resume'[r].approvals = resume[r].approvals /\ resume'[r].denials = resume[r].denials
<1>1. resume[r] \in Resume /\ Decided(r) \subseteq Call
  BY DEF TypeOK, Decided, Resume
<1>. DEFINE y == [resume[r] EXCEPT !.at = "resolving", !.todo = Decided(r), !.next = n]
<1>2. Becomes(r, y)
  BY <1>1 DEF Resume
<1>3. /\ y \in Resume /\ y.at = "resolving" /\ y.todo = Decided(r) /\ y.next = n
      /\ y.pause = resume[r].pause /\ y.approvals = resume[r].approvals /\ y.denials = resume[r].denials
  BY <1>1 DEF Resume, At
<1>. HIDE DEF y
<1>. QED BY <1>2, <1>3, OneBecomes DEF TypeOK

(* A resumer turns to the rows of the pause it has made.                   *)
LEMMA WritesEffect ==
  ASSUME TypeOK, NEW r \in Resumer, NEW to \in {"persisting", "again"}, resume[r].next \in Pause,
         Becomes(r, [resume[r] EXCEPT !.at = to, !.todo = batch[resume[r].next]])
  PROVE  /\ resume' \in [Resumer -> Resume] /\ Others(r)
         /\ resume'[r].at = to /\ resume'[r].todo = batch[resume[r].next]
         /\ resume'[r].next = resume[r].next
         /\ resume'[r].approvals = resume[r].approvals /\ resume'[r].denials = resume[r].denials
<1>1. resume[r] \in Resume /\ batch[resume[r].next] \subseteq Call
  BY DEF TypeOK
<1>. DEFINE y == [resume[r] EXCEPT !.at = to, !.todo = batch[resume[r].next]]
<1>2. /\ y \in Resume /\ y.at = to /\ y.todo = batch[resume[r].next] /\ y.next = resume[r].next
      /\ y.approvals = resume[r].approvals /\ y.denials = resume[r].denials /\ Becomes(r, y)
  BY <1>1 DEF Resume, At
<1>. HIDE DEF y
<1>. QED BY <1>2, OneBecomes DEF TypeOK

(* One operation fewer to do.                                              *)
LEMMA TickEffect ==
  ASSUME resume \in [Resumer -> Resume], NEW r \in Resumer, NEW c \in Call, Ticks(r, c)
  PROVE  /\ resume' \in [Resumer -> Resume] /\ Others(r)
         /\ resume'[r].at = resume[r].at /\ resume'[r].todo = resume[r].todo \ {c}
         /\ resume'[r].pause = resume[r].pause /\ resume'[r].next = resume[r].next
         /\ resume'[r].approvals = resume[r].approvals /\ resume'[r].denials = resume[r].denials
<1>. DEFINE y == [resume[r] EXCEPT !.todo = @ \ {c}]
<1>1. resume[r] \in Resume
  OBVIOUS
<1>2. /\ y \in Resume /\ y.todo = resume[r].todo \ {c} /\ y.at = resume[r].at /\ y.pause = resume[r].pause
      /\ y.next = resume[r].next /\ y.approvals = resume[r].approvals /\ y.denials = resume[r].denials
  BY <1>1 DEF Resume
<1>3. Becomes(r, y)
  BY DEF Ticks
<1>. HIDE DEF y
<1>. QED BY <1>2, <1>3, OneBecomes

(***************************************************************************)
(* Type correctness.                                                       *)
(***************************************************************************)

(* The pause a resumer answers is one, once it has loaded it, and so is    *)
(* the pause whose rows it writes.                                         *)
Hand(r) ==
  /\ resume[r].at \in {"loaded", "resolving"} => resume[r].pause \in Pause
  /\ resume[r].at \in {"persisting", "again"} => resume[r].next \in Pause

Hands == \A r \in Resumer : Hand(r)

LEMMA TypeStep ==
  ASSUME TypeOK, Hands, [Next]_vars
  PROVE  TypeOK' /\ Hands'
<1>. USE DEF TypeOK, Hands, Hand, Others
<1>a. \A r \in Resumer : resume[r] \in Resume
  OBVIOUS
<1>d. \A r \in Resumer : Decided(r) \subseteq Call /\ resume[r].approvals \subseteq Call
  BY <1>a DEF Decided, Resume
<1>1. ASSUME NEW r \in Resumer, Decide(r) PROVE TypeOK' /\ Hands'
  BY <1>1, DecideEffect DEF Decide, history
<1>2. ASSUME NEW r \in Resumer, Reset(r),
             UNCHANGED <<rows, batch, pauses, executed, faults, history>>
      PROVE  TypeOK' /\ Hands'
  BY <1>2, ResetEffect DEF history
<1>3. ASSUME NEW r \in Resumer, Load(r) PROVE TypeOK' /\ Hands'
  <2>1. resume'[r].pause \in Pause
    BY <1>3, LoadEffect DEF Unresolved, Row
  <2>2. overlap' \subseteq Call
    BY <1>3, <1>d DEF Load
  <2>. QED BY <1>3, <2>1, <2>2, LoadEffect DEF Load
<1>4. ASSUME NEW r \in Resumer, NEW calls \in SUBSET Runs(r), Executes(r, calls)
      PROVE  executed' \in [Call -> Nat] /\ consumed' \subseteq Pause /\ resume[r].pause \in Pause
  <2>1. executed' \in [Call -> Nat]
    BY <1>4 DEF Executes
  <2>2. resume[r].pause \in Pause
    BY <1>4 DEF Executes
  <2>. QED BY <1>4, <2>1, <2>2 DEF Executes
<1>5. ASSUME NEW r \in Resumer, Complete(r) PROVE TypeOK' /\ Hands'
  <2>1. executed' \in [Call -> Nat] /\ consumed' \subseteq Pause /\ resume[r].pause \in Pause
    BY <1>4, <1>5 DEF Complete
  <2>2. resume[r].next \in Pause \cup {0}
    BY <1>a DEF Resume
  <2>3. resume' \in [Resumer -> Resume] /\ Others(r) /\ resume'[r].at = "resolving" /\ resume'[r].pause = resume[r].pause
    BY <1>5, <2>2, AnswerEffect DEF Complete
  <2>. QED BY <1>5, <2>1, <2>3 DEF Complete
<1>6. ASSUME NEW r \in Resumer, PauseAgain(r) PROVE TypeOK' /\ Hands'
  <2>1. executed' \in [Call -> Nat] /\ consumed' \subseteq Pause /\ resume[r].pause \in Pause
    BY <1>4, <1>6 DEF PauseAgain
  <2>2. PICK n \in Pause : n = pauses'
    BY <1>6 DEF PauseAgain
  <2>3. resume' \in [Resumer -> Resume] /\ Others(r) /\ resume'[r].at = "resolving" /\ resume'[r].pause = resume[r].pause
    BY <1>6, <2>2, AnswerEffect DEF PauseAgain
  <2>4. batch' \in [Pause -> SUBSET Call]
    BY <1>6, <2>2 DEF PauseAgain
  <2>. QED BY <1>6, <2>1, <2>2, <2>3, <2>4 DEF PauseAgain
<1>7. ASSUME NEW r \in Resumer, NEW to \in {"persisting", "again"}, resume[r].next \in Pause,
             Becomes(r, [resume[r] EXCEPT !.at = to, !.todo = batch[resume[r].next]]),
             UNCHANGED <<rows, batch, pauses, executed, faults, history>>
      PROVE  TypeOK' /\ Hands'
  <2>1. resume' \in [Resumer -> Resume] /\ Others(r) /\ resume'[r].at = to /\ resume'[r].next \in Pause
    BY <1>7, WritesEffect
  <2>. QED BY <1>7, <2>1 DEF history
<1>8. ASSUME NEW r \in Resumer, Resolved(r) \/ Persisted(r) PROVE TypeOK' /\ Hands'
  <2>1. CASE Resolved(r)
    <3>1. resume[r].next # 0 => resume[r].next \in Pause
      BY <1>a DEF Resume
    <3>. QED BY <1>2, <1>7, <2>1, <3>1 DEF Resolved
  <2>2. CASE Persisted(r)
    BY <1>2, <1>7, <2>2 DEF Persisted
  <2>. QED BY <1>8, <2>1, <2>2
<1>9. ASSUME NEW r \in Resumer, Dies(r) PROVE TypeOK' /\ Hands'
  <2>1. executed' \in [Call -> Nat] /\ consumed' \subseteq Pause
    BY <1>4, <1>9 DEF Dies
  <2>2. resume' \in [Resumer -> Resume] /\ Others(r) /\ resume'[r].at = "idle"
    BY <1>9, ResetEffect DEF Dies
  <2>3. torn' \subseteq Call
    BY <1>9, <1>d DEF Dies
  <2>4. /\ resume[r].at = "resolving" /\ resume[r].next # 0 => batch[resume[r].next] \subseteq Call
        /\ resume[r].todo \subseteq Call
    BY <1>a DEF Resume
  <2>5. unsaved' \subseteq Call
    BY <1>9, <2>4 DEF Dies
  <2>6. faults' \in 0 .. MaxFault
    BY <1>9 DEF Dies
  <2>. QED BY <1>9, <2>1, <2>2, <2>3, <2>5, <2>6 DEF Dies
<1>t. ASSUME NEW r \in Resumer, NEW c \in Call, Ticks(r, c)
      PROVE  resume' \in [Resumer -> Resume] /\ Hands'
  BY <1>t, TickEffect
<1>10. ASSUME NEW r \in Resumer, NEW c \in Call, Resolve(r, c) PROVE TypeOK' /\ Hands'
  <2>1. rows' \in [Call -> Row \cup {NoRow}]
    <3>1. CASE Open(c)
      <4>1. rows[c] \in Row
        BY <3>1 DEF Open, Unresolved
      <4>2. [rows[c] EXCEPT !.decision = DecisionOf(r, c)] \in Row
        BY <4>1 DEF Row, DecisionOf
      <4>3. rows' = [rows EXCEPT ![c] = [rows[c] EXCEPT !.decision = DecisionOf(r, c)]]
        BY <1>10, <3>1 DEF Resolve
      <4>. QED BY <4>2, <4>3
    <3>. QED BY <1>10, <3>1 DEF Resolve
  <2>. QED BY <1>10, <1>t, <2>1 DEF Resolve, history
<1>11. ASSUME NEW r \in Resumer, NEW c \in Call, Persist(r, c) PROVE TypeOK' /\ Hands'
  <2>1. [pause |-> resume[r].next, decision |-> "none"] \in Row
    BY <1>11 DEF Persist, Row
  <2>2. rows' \in [Call -> Row \cup {NoRow}]
    BY <1>11, <2>1 DEF Persist
  <2>. QED BY <1>11, <1>t, <2>2 DEF Persist
<1>12. ASSUME NEW r \in Resumer, NEW c \in Call, WriteFails(r, c) PROVE TypeOK' /\ Hands'
  <2>1. torn' \subseteq Call /\ unsaved' \subseteq Call /\ faults' \in 0 .. MaxFault
    BY <1>12, <1>d DEF WriteFails
  <2>. QED BY <1>12, <1>t, <2>1 DEF WriteFails
<1>13. CASE UNCHANGED vars
  BY <1>13 DEF vars, history
<1>. QED BY <1>1, <1>2, <1>3, <1>5, <1>6, <1>8, <1>9, <1>10, <1>11, <1>12, <1>13 DEF Next, Refuse, Mismatch

LEMMA TypeInit == Init => TypeOK /\ Hands
<1>. SUFFICES ASSUME Init PROVE TypeOK /\ Hands
  OBVIOUS
<1>1. PICK r \in Resumer, calls \in SUBSET Call :
        /\ batch = [p \in Pause |-> IF p = 1 THEN calls ELSE {}]
        /\ resume = [q \in Resumer |->
             IF q = r THEN [Idle EXCEPT !.at = "persisting", !.next = 1, !.todo = calls] ELSE Idle]
  BY DEF Init
<1>2. 1 \in Pause
  OBVIOUS
<1>3. [Idle EXCEPT !.at = "persisting", !.next = 1, !.todo = calls] \in Resume
  BY <1>2 DEF Idle, Resume, At
<1>4. resume \in [Resumer -> Resume] /\ Hands
  BY <1>1, <1>2, <1>3 DEF Hands, Hand, Idle, Resume, At
<1>. QED BY <1>1, <1>2, <1>4 DEF Init, TypeOK

(* Every variable keeps its type, and a resumer at work has its pause.       *)
THEOREM ApprovalsTypeCorrect == Spec => []TypeOK
<1>1. Init => TypeOK /\ Hands
  BY TypeInit
<1>2. TypeOK /\ Hands /\ [Next]_vars => TypeOK' /\ Hands'
  BY TypeStep
<1>. QED BY <1>1, <1>2, PTL DEF Spec

(* A decision that is recorded stands: a row is written when there is none *)
(* and its decision when it has none.                                      *)
THEOREM DecisionsStand == Spec => DecisionStands
<1>1. [Next]_vars => [\A c \in Call : rows[c] # NoRow /\ rows[c].decision # "none" => rows'[c] = rows[c]]_rows
  <2>. SUFFICES ASSUME [Next]_vars, rows' # rows, NEW d \in Call, rows[d] # NoRow, rows[d].decision # "none"
                PROVE  rows'[d] = rows[d]
    OBVIOUS
  <2>1. ASSUME NEW r \in Resumer, NEW c \in Call, Resolve(r, c) \/ Persist(r, c) PROVE rows'[d] = rows[d]
    <3>1. CASE Resolve(r, c)
      BY <3>1 DEF Resolve, Open, Unresolved
    <3>2. CASE Persist(r, c)
      BY <3>2 DEF Persist, Absent
    <3>. QED BY <2>1, <3>1, <3>2
  <2>2. ASSUME NEW r \in Resumer, Decide(r) \/ Refuse(r) \/ Load(r) \/ Mismatch(r) \/ Resolved(r) \/ Persisted(r) PROVE rows' = rows
    BY <2>2 DEF Decide, Refuse, Load, Mismatch, Resolved, Persisted
  <2>3. ASSUME NEW r \in Resumer, Complete(r) \/ PauseAgain(r) \/ Dies(r) PROVE rows' = rows
    BY <2>3 DEF Complete, PauseAgain, Dies
  <2>4. ASSUME NEW r \in Resumer, NEW c \in Call, WriteFails(r, c) PROVE rows' = rows
    BY <2>4 DEF WriteFails
  <2>. QED BY <2>1, <2>2, <2>3, <2>4 DEF Next, vars
<1>. QED BY <1>1, PTL DEF Spec, DecisionStands

(***************************************************************************)
(* The inductive invariant: where the calls of each pause stand.           *)
(***************************************************************************)

(* The pauses have calls of their own, those to come none yet.             *)
Batches ==
  /\ \A p, q \in Pause : p # q => batch[p] \cap batch[q] = {}
  /\ \A p \in Pause : p > pauses => batch[p] = {}

(* What a resumer has decided was shown, what it resolves is the pause it  *)
(* has answered, and what it writes the pause it has made.                 *)
Work(r) ==
  /\ \A c \in Decided(r) : rows[c] # NoRow
  /\ resume[r].approvals \cap resume[r].denials = {}
  /\ resume[r].next <= pauses
  /\ resume[r].at \in {"loaded", "resolving"} => resume[r].pause <= pauses
  /\ resume[r].at = "resolving" =>
       /\ Decided(r) = batch[resume[r].pause] /\ resume[r].pause \in consumed
       /\ resume[r].todo \subseteq Decided(r)
  /\ resume[r].at \in {"persisting", "again"} => resume[r].todo \subseteq batch[resume[r].next]

Works == \A r \in Resumer : Work(r)

(* A row is of a call of its pause, decided only when that was answered.   *)
Rows ==
  \A c \in Call : rows[c] # NoRow =>
    /\ c \in batch[rows[c].pause]
    /\ rows[c].decision # "none" => rows[c].pause \in consumed

(* Only calls of answered pauses are executed or torn, and all of these    *)
(* have their rows.                                                        *)
Done ==
  /\ \A p \in consumed : p <= pauses /\ \A c \in batch[p] : rows[c] # NoRow
  /\ \A c \in Call : executed[c] > 0 \/ c \in torn => \E p \in consumed : c \in batch[p]

Resolving(c) == \E r \in Resumer : resume[r].at = "resolving" /\ c \in resume[r].todo

(* The rows of an answered pause are resolved, or about to be, or torn.    *)
Answered ==
  \A p \in consumed : batch[p] \subseteq torn \/ \A c \in batch[p] \cap Unresolved : Resolving(c)

Engaged(r) == resume[r].at \in {"loaded", "resolving"}

(* Two resumers engaged on one call overlap.                               *)
Apart ==
  \A r, q \in Resumer :
    r # q /\ Engaged(r) /\ Engaged(q) => Decided(r) \cap Decided(q) \subseteq overlap

(* A resumer late for its pause executes nothing that is not excused.      *)
Late ==
  \A r \in Resumer : resume[r].at = "loaded" /\ resume[r].pause \in consumed =>
    Decided(r) \cap batch[resume[r].pause] \subseteq overlap \cup torn

(* A denial, recorded or about to be, is of a call not executed.           *)
Denied ==
  \A c \in Call \ (overlap \cup torn) :
    /\ rows[c] # NoRow /\ rows[c].decision = "deny" => executed[c] = 0
    /\ \A r \in Resumer :
         resume[r].at = "resolving" /\ c \in resume[r].todo \cap resume[r].denials => executed[c] = 0

Holds(r, p, c) ==
  /\ resume[r].next = p
  /\ resume[r].at = "resolving" \/ (resume[r].at \in {"persisting", "again"} /\ c \in resume[r].todo)

(* The rows of a pause nobody has answered are there, or about to be.      *)
Filed ==
  \A p \in Pause : p <= pauses /\ p \notin consumed =>
    \A c \in batch[p] \ unsaved : c \in Unresolved \/ \E r \in Resumer : Holds(r, p, c)

Sound == /\ Batches /\ Works /\ Rows /\ Done /\ Answered
         /\ Apart /\ Late /\ Denied /\ ExecutedOnce /\ Filed

(* A step that only moves a resumer on, and not into its pause.            *)
LEMMA QuietStep ==
  ASSUME TypeOK, Hands, Sound, NEW r \in Resumer,
         UNCHANGED <<rows, batch, pauses, executed, history>>,
         Others(r), Work(r)', ~Engaged(r)', resume[r].at = "resolving" => resume[r].todo = {},
         \A p \in Pause, c \in Call : c \in batch[p] /\ Holds(r, p, c) => Holds(r, p, c)'
  PROVE  Sound'
<1>. USE DEF Sound, Others, history
<1>1. Unresolved' = Unresolved /\ \A q \in Resumer \ {r} : Decided(q)' = Decided(q)
  BY DEF Decided, Unresolved, Others
<1>2. Batches'
  BY DEF Batches
<1>3. Works'
  BY <1>1 DEF Works, Work
<1>4. Rows' /\ Done'
  BY DEF Rows, Done
<1>5. Answered'
  BY <1>1 DEF Answered, Resolving, Engaged
<1>6. Apart' /\ Late'
  BY <1>1 DEF Apart, Late, Engaged
<1>7. Denied' /\ ExecutedOnce'
  BY DEF Denied, ExecutedOnce, Engaged
<1>8. Filed'
  <2>. SUFFICES ASSUME NEW p \in Pause, p <= pauses, p \notin consumed, NEW c \in batch[p] \ unsaved, c \notin Unresolved
                PROVE  \E q \in Resumer : Holds(q, p, c)'
    BY <1>1 DEF Filed
  <2>1. PICK q \in Resumer : Holds(q, p, c)
    BY DEF Filed
  <2>2. c \in Call
    BY DEF TypeOK
  <2>3. q # r => Holds(q, p, c)'
    BY <2>1 DEF Holds
  <2>. QED BY <2>1, <2>2, <2>3
<1>. QED BY <1>2, <1>3, <1>4, <1>5, <1>6, <1>7, <1>8

LEMMA LoadStep ==
  ASSUME TypeOK, Hands, Sound, NEW r \in Resumer, Load(r)
  PROVE  Sound'
<1>. USE DEF Sound, Others
<1>1. /\ resume'[r].at = "loaded" /\ resume'[r].next = resume[r].next /\ Others(r) /\ resume[r].at = "decided"
      /\ resume'[r].approvals = resume[r].approvals /\ resume'[r].denials = resume[r].denials
  BY LoadEffect DEF Load
<1>2. PICK c0 \in Unresolved : resume'[r].pause = rows[c0].pause
  BY LoadEffect
<1>3. UNCHANGED <<rows, batch, pauses, executed, consumed, torn, unsaved>> /\ overlap \subseteq overlap'
  BY DEF Load
<1>4. Unresolved' = Unresolved /\ \A q \in Resumer : Decided(q)' = Decided(q)
  BY <1>1, <1>3 DEF Decided, Unresolved
<1>5. c0 \in Call /\ rows[c0].pause \in Pause /\ c0 \in batch[rows[c0].pause]
  BY DEF Unresolved, TypeOK, Row, Rows
<1>6. rows[c0].pause <= pauses
  BY <1>5 DEF Batches, TypeOK
<1>7. \A q \in Resumer \ {r} : Engaged(q) => Decided(r) \cap Decided(q) \subseteq overlap'
  BY DEF Load, Engaged, Decided, TypeOK, Resume
<1>8. Batches' /\ Rows' /\ Done'
  BY <1>3 DEF Batches, Rows, Done
<1>9. Works'
  BY <1>1, <1>2, <1>3, <1>4, <1>6 DEF Works, Work
<1>10. Answered'
  BY <1>1, <1>3, <1>4 DEF Answered, Resolving
<1>11. Apart'
  BY <1>1, <1>3, <1>4, <1>7 DEF Apart, Engaged
<1>12. Late'
  <2>1. ASSUME rows[c0].pause \in consumed
        PROVE  Decided(r) \cap batch[rows[c0].pause] \subseteq overlap' \cup torn
    <3>1. CASE batch[rows[c0].pause] \subseteq torn
      BY <3>1
    <3>2. CASE Resolving(c0)
      <4>1. PICK q \in Resumer : resume[q].at = "resolving" /\ c0 \in resume[q].todo
        BY <3>2 DEF Resolving
      <4>2. q # r /\ Engaged(q) /\ Decided(q) = batch[resume[q].pause] /\ c0 \in Decided(q) /\ resume[q].pause \in Pause
        BY <1>1, <4>1 DEF Works, Work, Engaged, Hands, Hand
      <4>3. resume[q].pause = rows[c0].pause
        BY <1>5, <4>2 DEF Batches
      <4>. QED BY <1>7, <4>2, <4>3
    <3>. QED BY <1>2, <1>5, <2>1, <3>1, <3>2 DEF Answered
  <2>2. ASSUME NEW q \in Resumer, resume'[q].at = "loaded", resume'[q].pause \in consumed
        PROVE  Decided(q) \cap batch[resume'[q].pause] \subseteq overlap' \cup torn
    <3>1. CASE q = r
      BY <1>2, <2>1, <2>2, <3>1
    <3>2. CASE q # r
      BY <1>1, <1>3, <2>2, <3>2 DEF Late
    <3>. QED BY <3>1, <3>2
  <2>. QED BY <1>3, <1>4, <2>2 DEF Late
<1>13. Denied' /\ ExecutedOnce'
  BY <1>1, <1>3 DEF Denied, ExecutedOnce
<1>14. Filed'
  BY <1>1, <1>3, <1>4 DEF Filed, Holds
<1>. QED BY <1>8, <1>9, <1>10, <1>11, <1>12, <1>13, <1>14

(* A resumer answers its pause: it goes on to resolve it, or dies of it.   *)
LEMMA AnswerStep ==
  ASSUME TypeOK, Hands, Sound, TypeOK', Hands', Batches',
         NEW r \in Resumer, NEW calls \in SUBSET Runs(r), Executes(r, calls),
         UNCHANGED <<rows, overlap>>, Others(r), pauses <= pauses', unsaved \subseteq unsaved',
         \A p \in Pause : p <= pauses => batch'[p] = batch[p],
         \/ /\ resume'[r].at = "resolving" /\ resume'[r].todo = Decided(r) /\ torn' = torn
            /\ resume'[r].pause = resume[r].pause /\ resume'[r].next <= pauses'
            /\ resume'[r].approvals = resume[r].approvals /\ resume'[r].denials = resume[r].denials
            /\ \A p \in Pause : pauses < p /\ p <= pauses' => resume'[r].next = p
         \/ /\ resume'[r].at = "idle" /\ resume'[r].approvals = {} /\ resume'[r].denials = {}
            /\ torn' = torn \cup Decided(r) /\ resume'[r].next = 0 /\ pauses' = pauses
  PROVE  Sound'
<1>. DEFINE p0 == resume[r].pause
<1>1. /\ resume[r].at = "loaded" /\ Decided(r) = batch[p0] /\ p0 \in Pause /\ p0 <= pauses
      /\ consumed' = consumed \cup {p0} /\ calls \subseteq resume[r].approvals
      /\ \A c \in Call : executed'[c] = IF c \in calls THEN executed[c] + 1 ELSE executed[c]
  BY DEF Executes, Fits, Runs, Hands, Hand, Sound, Works, Work
<1>. USE DEF Sound, Others
<1>2. Unresolved' = Unresolved /\ \A q \in Resumer \ {r} : Decided(q)' = Decided(q)
  BY DEF Unresolved, Decided
<1>3. resume'[r].at = "resolving" => Decided(r)' = Decided(r)
  BY DEF Decided
<1>4. Decided(r) \subseteq Call /\ calls \subseteq Decided(r) /\ torn \subseteq torn'
  BY <1>1 DEF Decided, TypeOK, Resume
<1>p. pauses \in Nat /\ pauses' \in Nat /\ \A p \in consumed : p \in Pause /\ p <= pauses
  BY DEF TypeOK, Done
<1>5. Works'
  <2>1. ASSUME NEW q \in Resumer, q # r PROVE Work(q)'
    BY <1>1, <1>2, <1>p, <2>1 DEF Works, Work, Hands, Hand, TypeOK, Resume
  <2>2. Work(r)'
    <3>1. CASE resume'[r].at = "resolving"
      <4>1. Decided(r)' = batch'[p0] /\ resume'[r].pause = p0
        BY <1>1, <1>3, <3>1
      <4>. QED BY <1>1, <1>3, <1>p, <3>1, <4>1 DEF Works, Work
    <3>2. CASE resume'[r].at = "idle"
      BY <1>p, <3>2 DEF Work, Decided
    <3>. QED BY <3>1, <3>2
  <2>. QED BY <2>1, <2>2 DEF Works
<1>6. Rows'
  <2>. SUFFICES ASSUME NEW c \in Call, rows[c] # NoRow
                PROVE  /\ c \in batch'[rows[c].pause]
                       /\ rows[c].decision # "none" => rows[c].pause \in consumed'
    BY DEF Rows
  <2>1. c \in batch[rows[c].pause] /\ rows[c].pause \in Pause
    BY DEF Rows, TypeOK, Row
  <2>2. rows[c].pause <= pauses
    BY <1>p, <2>1 DEF Batches
  <2>. QED BY <1>1, <2>1, <2>2 DEF Rows
<1>7. Done'
  <2>1. \A p \in consumed' : p <= pauses' /\ p <= pauses /\ p \in Pause
    BY <1>1, <1>p
  <2>2. \A c \in batch[p0] : rows[c] # NoRow
    BY <1>1 DEF Works, Work
  <2>3. \A p \in consumed', c \in Call : c \in batch'[p] => rows'[c] # NoRow
    BY <1>1, <2>1, <2>2 DEF Done
  <2>4. ASSUME NEW c \in Call, executed'[c] > 0 \/ c \in torn' PROVE \E p \in consumed' : c \in batch'[p]
    <3>1. CASE c \in Decided(r)
      BY <1>1, <3>1
    <3>2. CASE c \notin Decided(r)
      <4>1. executed[c] > 0 \/ c \in torn
        BY <1>1, <1>4, <2>4, <3>2
      <4>. QED BY <1>1, <2>1, <4>1 DEF Done
    <3>. QED BY <3>1, <3>2
  <2>5. \A p \in consumed' : batch'[p] \subseteq Call
    BY <2>1 DEF TypeOK
  <2>. QED BY <2>1, <2>3, <2>4, <2>5 DEF Done
<1>8. Answered'
  <2>. SUFFICES ASSUME NEW p \in consumed', ~(batch'[p] \subseteq torn'), NEW c \in batch'[p], c \in Unresolved
                PROVE  Resolving(c)'
    BY <1>2 DEF Answered
  <2>1. batch'[p] = batch[p]
    BY <1>1, <1>p
  <2>2. CASE p = p0
    BY <1>1, <1>4, <2>1, <2>2 DEF Resolving
  <2>3. CASE p \in consumed
    <3>1. PICK q \in Resumer : resume[q].at = "resolving" /\ c \in resume[q].todo
      BY <1>4, <2>1, <2>3 DEF Answered, Resolving
    <3>2. q # r
      BY <1>1, <3>1
    <3>. QED BY <3>1, <3>2 DEF Resolving
  <2>. QED BY <1>1, <2>2, <2>3
<1>9. Apart'
  BY <1>1, <1>2, <1>3 DEF Apart, Engaged
<1>10. Late'
  <2>. SUFFICES ASSUME NEW q \in Resumer, resume'[q].at = "loaded", resume'[q].pause \in consumed'
                PROVE  Decided(q) \cap batch'[resume[q].pause] \subseteq overlap \cup torn' /\ q # r /\ resume'[q] = resume[q]
    BY <1>2 DEF Late
  <2>1. q # r /\ resume'[q] = resume[q] /\ batch'[resume[q].pause] = batch[resume[q].pause]
    BY <1>1, <1>p
  <2>2. CASE resume[q].pause \in consumed
    BY <1>4, <2>1, <2>2 DEF Late
  <2>3. CASE resume[q].pause = p0
    BY <1>1, <2>1, <2>3 DEF Apart, Engaged
  <2>. QED BY <1>1, <2>1, <2>2, <2>3
<1>11. ASSUME NEW c \in Call \ (overlap \cup torn'), c \in calls
       PROVE  p0 \notin consumed /\ executed[c] = 0
  <2>1. p0 \notin consumed
    BY <1>1, <1>4, <1>11 DEF Late
  <2>2. c \notin torn /\ ~(executed[c] > 0)
    BY <1>1, <1>4, <1>11, <1>p, <2>1 DEF Done, Batches
  <2>. QED BY <2>1, <2>2 DEF TypeOK
<1>12. ExecutedOnce'
  BY <1>1, <1>4, <1>11 DEF ExecutedOnce
<1>13. Denied'
  <2>1. ASSUME NEW c \in Call \ (overlap \cup torn'), rows[c] # NoRow, rows[c].decision = "deny"
        PROVE  executed'[c] = 0
    <3>1. rows[c].pause \in consumed /\ c \in batch[rows[c].pause]
      BY <2>1 DEF Rows
    <3>2. c \notin calls
      BY <1>1, <1>4, <1>11, <1>p, <2>1, <3>1 DEF Batches
    <3>. QED BY <1>1, <1>4, <2>1, <3>2 DEF Denied
  <2>2. ASSUME NEW c \in Call \ (overlap \cup torn'), NEW q \in Resumer, q # r,
               resume[q].at = "resolving", c \in resume[q].todo \cap resume[q].denials
        PROVE  executed'[c] = 0
    <3>1. c \in batch[resume[q].pause] /\ resume[q].pause \in consumed
      BY <2>2 DEF Works, Work
    <3>2. c \notin calls
      BY <1>1, <1>4, <1>11, <1>p, <2>2, <3>1 DEF Batches
    <3>. QED BY <1>1, <1>4, <2>2, <3>2 DEF Denied
  <2>3. ASSUME NEW c \in Call \ (overlap \cup torn'), resume'[r].at = "resolving",
               c \in Decided(r) \cap resume[r].denials
        PROVE  executed'[c] = 0
    <3>1. c \notin calls
      BY <1>1, <2>3 DEF Works, Work
    <3>2. p0 \notin consumed
      BY <1>1, <1>4, <2>3 DEF Late
    <3>3. ~(executed[c] > 0)
      BY <1>1, <1>p, <2>3, <3>2 DEF Done, Batches
    <3>. QED BY <1>1, <3>1, <3>3 DEF TypeOK
  <2>. QED BY <2>1, <2>2, <2>3 DEF Denied
<1>14. Filed'
  <2>. SUFFICES ASSUME NEW p \in Pause, p <= pauses', p \notin consumed', NEW c \in batch'[p] \ unsaved', c \notin Unresolved
                PROVE  \E q \in Resumer : Holds(q, p, c)'
    BY <1>2 DEF Filed
  <2>1. CASE p <= pauses
    <3>1. c \in batch[p] \ unsaved /\ p \notin consumed
      BY <1>1, <2>1
    <3>2. PICK q \in Resumer : Holds(q, p, c)
      BY <2>1, <3>1 DEF Filed
    <3>3. q # r
      BY <1>1, <3>2 DEF Holds
    <3>. QED BY <3>2, <3>3 DEF Holds
  <2>2. CASE ~(p <= pauses)
    <3>1. pauses < p
      BY <1>p, <2>2
    <3>. QED BY <1>p, <3>1 DEF Holds
  <2>. QED BY <2>1, <2>2
<1>. QED BY <1>5, <1>6, <1>7, <1>8, <1>9, <1>10, <1>12, <1>13, <1>14

(* A row that is written.                                                  *)
LEMMA PersistStep ==
  ASSUME TypeOK, Hands, Sound, NEW r \in Resumer, NEW c \in Call, Persist(r, c)
  PROVE  Sound'
<1>. USE DEF Sound, Others
<1>. DEFINE p0 == resume[r].next
<1>1. /\ resume'[r].at = resume[r].at /\ resume'[r].todo = resume[r].todo \ {c} /\ Others(r)
      /\ resume'[r].next = p0 /\ resume'[r].approvals = resume[r].approvals /\ resume'[r].denials = resume[r].denials
      /\ resume[r].at \in {"persisting", "again"} /\ c \in batch[p0] /\ p0 \in Pause
  BY TickEffect DEF Persist, TypeOK, Works, Work, Hands, Hand
<1>2. UNCHANGED <<batch, pauses, executed, consumed, overlap, torn>> /\ unsaved' = unsaved \ {c}
  BY DEF Persist
<1>3. /\ \A d \in Call \ {c} : rows'[d] = rows[d]
      /\ rows[c] # NoRow => rows'[c] = rows[c]
      /\ rows[c] = NoRow => rows'[c] # NoRow /\ rows'[c].pause = p0 /\ rows'[c].decision = "none"
  <2>1. [pause |-> p0, decision |-> "none"] \in Row
    BY <1>1 DEF Row
  <2>. QED BY <2>1 DEF Persist, Absent, TypeOK
<1>4. \A q \in Resumer : Decided(q)' = Decided(q)
  BY <1>1 DEF Decided
<1>5. \A d \in Call : rows[d] # NoRow => rows'[d] = rows[d]
  BY <1>3
<1>d. \A q \in Resumer : Decided(q) \subseteq Call
  BY DEF Decided, TypeOK, Resume
<1>6. Batches' /\ ExecutedOnce' /\ Apart' /\ Late'
  BY <1>1, <1>2, <1>4 DEF Batches, ExecutedOnce, Apart, Late, Engaged
<1>7. Works'
  BY <1>1, <1>2, <1>4, <1>5, <1>d DEF Works, Work
<1>8. Rows'
  BY <1>1, <1>2, <1>3 DEF Rows
<1>9. Done'
  BY <1>2, <1>5 DEF Done, TypeOK
<1>10. rows[c] = NoRow => p0 \notin consumed
  BY <1>1 DEF Done
<1>11. Answered'
  <2>. SUFFICES ASSUME NEW p \in consumed, ~(batch[p] \subseteq torn), NEW d \in batch[p], d \in Unresolved'
                PROVE  Resolving(d)'
    BY <1>2 DEF Answered
  <2>1. d \in Call /\ p \in Pause
    BY DEF TypeOK
  <2>2. rows'[d] = rows[d]
    BY <1>5, <2>1 DEF Done
  <2>3. Resolving(d)
    BY <2>1, <2>2 DEF Answered, Unresolved
  <2>. QED BY <1>1, <2>3 DEF Resolving
<1>12. Denied'
  BY <1>1, <1>2, <1>3 DEF Denied
<1>13. Filed'
  <2>. SUFFICES ASSUME NEW p \in Pause, p <= pauses, p \notin consumed, NEW d \in batch[p] \ unsaved', d \notin Unresolved'
                PROVE  \E q \in Resumer : Holds(q, p, d)'
    BY <1>2 DEF Filed
  <2>1. d \in Call /\ d \in batch[p]
    BY DEF TypeOK
  <2>2. d # c
    <3>1. c \in batch[p] => rows'[c] # NoRow /\ rows'[c].decision = "none"
      BY <1>1, <1>3, <2>1 DEF Rows, Batches, TypeOK, Row
    <3>. QED BY <2>1, <3>1 DEF Unresolved
  <2>3. d \notin Unresolved /\ d \notin unsaved
    BY <1>2, <1>3, <2>1, <2>2 DEF Unresolved
  <2>4. PICK q \in Resumer : Holds(q, p, d)
    BY <2>1, <2>3 DEF Filed
  <2>. QED BY <1>1, <2>2, <2>4 DEF Holds
<1>. QED BY <1>6, <1>7, <1>8, <1>9, <1>11, <1>12, <1>13

(* A row that is resolved.                                                 *)
LEMMA ResolveStep ==
  ASSUME TypeOK, Hands, Sound, NEW r \in Resumer, NEW c \in Call, Resolve(r, c)
  PROVE  Sound'
<1>. USE DEF Sound, Others
<1>. DEFINE p0 == resume[r].pause
<1>1. /\ resume'[r].at = "resolving" /\ resume'[r].todo = resume[r].todo \ {c} /\ Others(r) /\ resume'[r].pause = p0
      /\ resume'[r].next = resume[r].next /\ resume'[r].approvals = resume[r].approvals
      /\ resume'[r].denials = resume[r].denials
      /\ resume[r].at = "resolving" /\ c \in resume[r].todo /\ c \in batch[p0] /\ p0 \in consumed
      /\ c \in Decided(r) /\ p0 \in Pause
  BY TickEffect DEF Resolve, TypeOK, Works, Work, Hands, Hand
<1>2. UNCHANGED <<batch, pauses, executed, consumed, overlap, torn, unsaved>>
  BY DEF Resolve, history
<1>3. /\ \A d \in Call \ {c} : rows'[d] = rows[d]
      /\ c \notin Unresolved => rows'[c] = rows[c]
      /\ c \in Unresolved => rows[c] # NoRow /\ rows'[c] # NoRow /\ rows'[c].pause = rows[c].pause /\ rows'[c].decision = DecisionOf(r, c)
  <2>1. CASE c \in Unresolved
    <3>1. rows[c] \in Row /\ rows[c] # NoRow /\ rows' = [rows EXCEPT ![c] = [rows[c] EXCEPT !.decision = DecisionOf(r, c)]]
      BY <2>1 DEF Unresolved, TypeOK, Resolve, Open
    <3>. DEFINE y == [rows[c] EXCEPT !.decision = DecisionOf(r, c)]
    <3>2. y \in Row /\ y.pause = rows[c].pause /\ y.decision = DecisionOf(r, c)
      BY <3>1 DEF Row, DecisionOf
    <3>. HIDE DEF y
    <3>3. rows' = [rows EXCEPT ![c] = y]
      BY <3>1 DEF y
    <3>. QED BY <2>1, <3>1, <3>2, <3>3 DEF TypeOK
  <2>2. CASE c \notin Unresolved
    BY <2>2 DEF Resolve, Open
  <2>. QED BY <2>1, <2>2
<1>4. \A q \in Resumer : Decided(q)' = Decided(q)
  BY <1>1 DEF Decided
<1>5. /\ \A d \in Call : rows[d] # NoRow <=> rows'[d] # NoRow
      /\ \A d \in Call : rows[d] # NoRow => rows'[d].pause = rows[d].pause
      /\ Unresolved' = Unresolved \ {c}
  BY <1>3 DEF Unresolved, DecisionOf
<1>d. \A q \in Resumer : Decided(q) \subseteq Call
  BY DEF Decided, TypeOK, Resume
<1>6. Batches' /\ ExecutedOnce' /\ Apart' /\ Late'
  BY <1>1, <1>2, <1>4 DEF Batches, ExecutedOnce, Apart, Late, Engaged
<1>7. Works'
  BY <1>1, <1>2, <1>4, <1>5, <1>d DEF Works, Work
<1>8. Rows'
  <2>1. rows[c] # NoRow => rows[c].pause = p0
    BY <1>1 DEF Rows, Batches, TypeOK, Row
  <2>. QED BY <1>1, <1>2, <1>3, <1>5, <2>1 DEF Rows
<1>9. Done'
  BY <1>2, <1>5 DEF Done, TypeOK
<1>10. Answered'
  <2>. SUFFICES ASSUME NEW p \in consumed, ~(batch[p] \subseteq torn), NEW d \in batch[p], d \in Unresolved \ {c}
                PROVE  Resolving(d)'
    BY <1>2, <1>5 DEF Answered
  <2>1. PICK q \in Resumer : resume[q].at = "resolving" /\ d \in resume[q].todo
    BY DEF Answered, Resolving
  <2>. QED BY <1>1, <2>1 DEF Resolving
<1>11. Denied'
  <2>1. c \in Unresolved /\ DecisionOf(r, c) = "deny" => c \in resume[r].denials
    BY <1>1 DEF DecisionOf, Decided
  <2>. QED BY <1>1, <1>2, <1>3, <2>1 DEF Denied
<1>12. Filed'
  <2>. SUFFICES ASSUME NEW p \in Pause, p <= pauses, p \notin consumed, NEW d \in batch[p] \ unsaved, d \notin Unresolved'
                PROVE  \E q \in Resumer : Holds(q, p, d)'
    BY <1>2 DEF Filed
  <2>1. d # c
    BY <1>1 DEF Batches
  <2>2. PICK q \in Resumer : Holds(q, p, d)
    BY <1>5, <2>1 DEF Filed
  <2>. QED BY <1>1, <2>1, <2>2 DEF Holds
<1>. QED BY <1>6, <1>7, <1>8, <1>9, <1>10, <1>11, <1>12

(* The row of a call nobody has answered is open.                          *)
LEMMA OpenRow ==
  ASSUME TypeOK, Sound, NEW p \in Pause, p \notin consumed, NEW c \in batch[p], rows[c] # NoRow
  PROVE  c \in Unresolved
<1>1. c \in Call /\ rows[c] \in Row
  BY DEF TypeOK
<1>2. rows[c].pause = p
  BY <1>1 DEF Sound, Rows, Batches, Row
<1>. QED BY <1>1, <1>2 DEF Sound, Rows, Unresolved

(* A resumer that leaves what it resolved, or wrote, undone.               *)
LEMMA TornStep ==
  ASSUME TypeOK, Hands, Sound, NEW r \in Resumer, Others(r), ~(resume[r].at = "loaded"),
         UNCHANGED <<rows, batch, pauses, executed, consumed, overlap>>,
         \/ torn' = torn
         \/ resume[r].at = "resolving" /\ torn' = torn \cup Decided(r),
         resume[r].at = "resolving" => torn' = torn \cup Decided(r) \/ resume[r].todo = {},
         \/ /\ resume'[r].at = resume[r].at /\ resume'[r].pause = resume[r].pause /\ resume'[r].next = resume[r].next
            /\ resume'[r].approvals = resume[r].approvals /\ resume'[r].denials = resume[r].denials
            /\ resume'[r].todo \subseteq resume[r].todo
         \/ /\ resume'[r].at = "idle" /\ resume'[r].approvals = {} /\ resume'[r].denials = {}
            /\ resume'[r].next = 0,
         unsaved \subseteq unsaved',
         \A p \in Pause, c \in Call :
           c \in batch[p] /\ Holds(r, p, c) => Holds(r, p, c)' \/ c \in unsaved' \/ rows[c] # NoRow
  PROVE  Sound'
<1>. USE DEF Sound, Others
<1>1. /\ resume[r].at = "resolving" =>
           Decided(r) = batch[resume[r].pause] /\ resume[r].pause \in consumed /\ resume[r].todo \subseteq Decided(r)
      /\ torn \subseteq torn' /\ Unresolved' = Unresolved
  BY DEF Works, Work, Unresolved
<1>2. /\ \A q \in Resumer \ {r} : Decided(q)' = Decided(q)
      /\ Decided(r)' = Decided(r) \/ (Decided(r)' = {} /\ resume'[r].at = "idle")
  BY DEF Decided
<1>3. Batches' /\ ExecutedOnce' /\ Rows'
  BY <1>1 DEF Batches, ExecutedOnce, Rows
<1>4. Works'
  <2>1. ASSUME NEW q \in Resumer, q # r PROVE Work(q)'
    BY <1>2, <2>1 DEF Works, Work
  <2>2. ASSUME resume'[r].at = "idle", resume'[r].approvals = {}, resume'[r].denials = {}, resume'[r].next = 0
        PROVE  Work(r)'
    <3>1. 0 <= pauses /\ pauses' = pauses /\ Decided(r)' = {}
      BY <2>2 DEF TypeOK, Decided
    <3>. HIDE DEF Sound
    <3>. QED BY <2>2, <3>1 DEF Work
  <2>3. ASSUME /\ resume'[r].at = resume[r].at /\ resume'[r].pause = resume[r].pause /\ resume'[r].next = resume[r].next
               /\ resume'[r].approvals = resume[r].approvals /\ resume'[r].denials = resume[r].denials
               /\ resume'[r].todo \subseteq resume[r].todo
        PROVE  Work(r)'
    <3>1. Decided(r)' = Decided(r)
      BY <2>3 DEF Decided
    <3>2. Work(r)
      BY DEF Works
    <3>3. UNCHANGED <<rows, batch, pauses, consumed>> /\ Unresolved' = Unresolved
      BY <1>1
    <3>. HIDE DEF Sound
    <3>. QED BY <2>3, <3>1, <3>2, <3>3 DEF Work
  <2>4. Work(r)'
    BY <2>2, <2>3
  <2>. QED BY <2>1, <2>4 DEF Works
<1>5. Done'
  BY <1>1 DEF Done
<1>6. Answered'
  <2>. SUFFICES ASSUME NEW p \in consumed, ~(batch[p] \subseteq torn'), NEW c \in batch[p], c \in Unresolved
                PROVE  Resolving(c)'
    BY <1>1 DEF Answered
  <2>1. PICK q \in Resumer : resume[q].at = "resolving" /\ c \in resume[q].todo
    BY <1>1 DEF Answered, Resolving
  <2>2. p \in Pause
    BY DEF TypeOK
  <2>3. q # r
    <3>. SUFFICES ASSUME q = r PROVE FALSE
      OBVIOUS
    <3>1. Decided(r) = batch[resume[r].pause] /\ c \in Decided(r) /\ resume[r].pause \in Pause
      BY <1>1, <2>1 DEF Hands, Hand
    <3>2. resume[r].pause = p
      BY <2>2, <3>1 DEF Batches
    <3>. QED BY <2>1, <3>1, <3>2
  <2>. QED BY <2>1, <2>3 DEF Resolving
<1>7. Apart' /\ Late'
  BY <1>1, <1>2 DEF Apart, Late, Engaged
<1>8. Denied'
  BY <1>1 DEF Denied
<1>9. Filed'
  <2>. SUFFICES ASSUME NEW p \in Pause, p <= pauses, p \notin consumed, NEW c \in batch[p] \ unsaved', c \notin Unresolved
                PROVE  \E q \in Resumer : Holds(q, p, c)'
    BY <1>1 DEF Filed
  <2>1. PICK q \in Resumer : Holds(q, p, c)
    BY DEF Filed
  <2>2. c \in Call /\ rows[c] = NoRow
    BY OpenRow DEF TypeOK
  <2>3. q # r => Holds(q, p, c)'
    BY <2>1 DEF Holds
  <2>. QED BY <2>1, <2>2, <2>3
<1>. QED BY <1>3, <1>4, <1>5, <1>6, <1>7, <1>8, <1>9

LEMMA SoundStep ==
  ASSUME TypeOK, Hands, Sound, [Next]_vars
  PROVE  Sound'
<1>0. TypeOK' /\ Hands'
  BY TypeStep
<1>a. resume \in [Resumer -> Resume] /\ \A r \in Resumer : resume[r] \in Resume
  BY DEF TypeOK
<1>w. \A r \in Resumer : Work(r)
  BY DEF Sound, Works
<1>1. ASSUME NEW r \in Resumer, Decide(r) PROVE Sound'
  <2>1. UNCHANGED <<rows, batch, pauses, executed, history>> /\ resume[r].at = "idle"
    BY <1>1 DEF Decide, Idle
  <2>2. Work(r)'
    BY <1>1, <1>a, <2>1, DecideEffect DEF Work, Decided, Unresolved, TypeOK
  <2>. QED BY <1>1, <1>a, <2>1, <2>2, DecideEffect, QuietStep DEF Engaged, Holds
<1>2. ASSUME NEW r \in Resumer, Reset(r),
             UNCHANGED <<rows, batch, pauses, executed, history>>,
             resume[r].at \in {"decided", "loaded"} \/ resume[r].todo = {},
             resume[r].at = "resolving" => resume[r].next = 0
      PROVE  Sound'
  <2>1. Work(r)'
    BY <1>2, <1>a, ResetEffect DEF Work, Decided, TypeOK
  <2>2. \A p \in Pause, c \in Call : ~Holds(r, p, c)
    BY <1>2 DEF Holds
  <2>. QED BY <1>2, <1>a, <2>1, <2>2, ResetEffect, QuietStep DEF Engaged
<1>3. ASSUME NEW r \in Resumer, Load(r) PROVE Sound'
  BY <1>3, LoadStep
<1>4. ASSUME NEW r \in Resumer, Refuse(r) \/ Mismatch(r) PROVE Sound'
  BY <1>2, <1>4 DEF Refuse, Mismatch
<1>5. ASSUME NEW r \in Resumer, Complete(r) PROVE Sound'
  <2>1. PICK calls \in SUBSET Runs(r) : Executes(r, calls)
    BY <1>5 DEF Complete
  <2>2. resume[r].next \in Pause \cup {0} /\ resume[r].next <= pauses
    BY <1>a, <1>w DEF Resume, Work
  <2>3. /\ resume' \in [Resumer -> Resume] /\ Others(r)
        /\ resume'[r].at = "resolving" /\ resume'[r].todo = Decided(r) /\ resume'[r].next = resume[r].next
        /\ resume'[r].pause = resume[r].pause
        /\ resume'[r].approvals = resume[r].approvals /\ resume'[r].denials = resume[r].denials
    BY <1>5, <2>2, AnswerEffect DEF Complete
  <2>4. UNCHANGED <<rows, batch, pauses, overlap, torn, unsaved>> /\ Batches'
    BY <1>5 DEF Complete, Sound, Batches
  <2>5. pauses <= pauses' /\ ~\E p \in Pause : pauses < p /\ p <= pauses'
    BY <2>4 DEF TypeOK
  <2>. QED BY <1>0, <2>1, <2>2, <2>3, <2>4, <2>5, AnswerStep
<1>6. ASSUME NEW r \in Resumer, PauseAgain(r) PROVE Sound'
  <2>1. Runs(r) \in SUBSET Runs(r) /\ Executes(r, Runs(r))
    BY <1>6 DEF PauseAgain
  <2>2. PICK n \in Pause : n = pauses' /\ n = pauses + 1
    BY <1>6 DEF PauseAgain, TypeOK
  <2>3. /\ resume' \in [Resumer -> Resume] /\ Others(r)
        /\ resume'[r].at = "resolving" /\ resume'[r].todo = Decided(r) /\ resume'[r].next = n
        /\ resume'[r].pause = resume[r].pause
        /\ resume'[r].approvals = resume[r].approvals /\ resume'[r].denials = resume[r].denials
    BY <1>6, <2>2, AnswerEffect DEF PauseAgain
  <2>4. UNCHANGED <<rows, overlap, torn, unsaved>>
    BY <1>6 DEF PauseAgain
  <2>5. PICK calls \in SUBSET (Call \ Asked) : batch' = [batch EXCEPT ![n] = calls]
    BY <1>6, <2>2 DEF PauseAgain
  <2>6. pauses \in Nat /\ (\A p \in Pause : p # n => batch'[p] = batch[p]) /\ batch'[n] = calls
    BY <2>5 DEF TypeOK
  <2>7. \A p \in Pause : batch[p] \cap calls = {}
    BY DEF Asked
  <2>8. Batches'
    BY <2>2, <2>6, <2>7 DEF Sound, Batches
  <2>9. /\ pauses <= pauses' /\ (\A p \in Pause : p <= pauses => batch'[p] = batch[p])
        /\ \A p \in Pause : pauses < p /\ p <= pauses' => n = p
    BY <2>2, <2>6
  <2>10. n <= pauses'
    BY <2>2
  <2>. QED BY <1>0, <2>1, <2>3, <2>4, <2>8, <2>9, <2>10, AnswerStep
<1>7. ASSUME NEW r \in Resumer, NEW to \in {"persisting", "again"}, resume[r].next \in Pause,
             Becomes(r, [resume[r] EXCEPT !.at = to, !.todo = batch[resume[r].next]]),
             resume[r].todo = {},
             UNCHANGED <<rows, batch, pauses, executed, history>>
      PROVE  Sound'
  <2>1. /\ resume'[r].at = to /\ resume'[r].todo = batch[resume[r].next] /\ Others(r)
        /\ resume'[r].next = resume[r].next
        /\ resume'[r].approvals = resume[r].approvals /\ resume'[r].denials = resume[r].denials
    BY <1>7, WritesEffect
  <2>2. Work(r)'
    BY <1>7, <1>w, <2>1 DEF Work, Decided
  <2>3. \A p \in Pause, c \in Call : c \in batch[p] /\ Holds(r, p, c) => Holds(r, p, c)'
    BY <1>7, <2>1 DEF Holds
  <2>. QED BY <1>7, <2>1, <2>2, <2>3, QuietStep DEF Engaged
<1>8. ASSUME NEW r \in Resumer, Resolved(r) PROVE Sound'
  <2>1. resume[r].next # 0 => resume[r].next \in Pause
    BY <1>a DEF Resume
  <2>2. resume[r].todo = {} /\ UNCHANGED <<rows, batch, pauses, executed, history>>
    BY <1>8 DEF Resolved
  <2>3. CASE resume[r].next = 0
    BY <1>2, <1>8, <2>2, <2>3 DEF Resolved
  <2>4. CASE resume[r].next # 0
    BY <1>7, <1>8, <2>1, <2>2, <2>4 DEF Resolved
  <2>. QED BY <2>3, <2>4
<1>9. ASSUME NEW r \in Resumer, Persisted(r) PROVE Sound'
  <2>1. resume[r].todo = {} /\ resume[r].at \in {"persisting", "again"} /\ resume[r].next \in Pause
        /\ UNCHANGED <<rows, batch, pauses, executed, history>>
    BY <1>9 DEF Persisted, Hands, Hand
  <2>2. CASE Reset(r)
    BY <1>2, <2>1, <2>2
  <2>3. CASE Becomes(r, [resume[r] EXCEPT !.at = "again", !.todo = batch[resume[r].next]])
    BY <1>7, <2>1, <2>3
  <2>. QED BY <1>9, <2>2, <2>3 DEF Persisted
<1>10. ASSUME NEW r \in Resumer, NEW c \in Call, Resolve(r, c) \/ Persist(r, c) PROVE Sound'
  BY <1>10, ResolveStep, PersistStep
<1>11. ASSUME NEW r \in Resumer, NEW c \in Call, WriteFails(r, c) PROVE Sound'
  <2>1. /\ Others(r) /\ resume'[r].at = resume[r].at /\ resume'[r].pause = resume[r].pause
        /\ resume'[r].next = resume[r].next /\ resume'[r].todo = resume[r].todo \ {c}
        /\ resume'[r].approvals = resume[r].approvals /\ resume'[r].denials = resume[r].denials
    BY <1>11, <1>a, TickEffect DEF WriteFails
  <2>2. UNCHANGED <<rows, batch, pauses, executed, consumed, overlap>>
    BY <1>11 DEF WriteFails
  <2>3. CASE resume[r].at = "loaded"
    <3>1. UNCHANGED torn /\ unsaved \subseteq unsaved'
      BY <1>11, <2>3 DEF WriteFails
    <3>2. Unresolved' = Unresolved /\ \A q \in Resumer : Decided(q)' = Decided(q)
      BY <2>1, <2>2 DEF Unresolved, Decided, Others
    <3>3. /\ \A q \in Resumer : /\ resume'[q].at = resume[q].at /\ resume'[q].pause = resume[q].pause
                              /\ resume'[q].next = resume[q].next /\ resume'[q].denials = resume[q].denials
                              /\ resume'[q].approvals = resume[q].approvals
          /\ \A q \in Resumer : resume[q].at # "loaded" => resume'[q].todo = resume[q].todo
      BY <2>1, <2>3 DEF Others
    <3>4. Batches' /\ Works' /\ Rows' /\ Done' /\ ExecutedOnce'
      BY <2>2, <3>1, <3>2, <3>3 DEF Sound, Batches, Works, Work, Rows, Done, ExecutedOnce
    <3>5. Answered' /\ Apart' /\ Late' /\ Denied'
      BY <2>2, <3>1, <3>2, <3>3 DEF Sound, Answered, Resolving, Apart, Engaged, Late, Denied
    <3>6. Filed'
      BY <2>2, <3>1, <3>2, <3>3 DEF Sound, Filed, Holds
    <3>. QED BY <3>4, <3>5, <3>6 DEF Sound
  <2>4. CASE resume[r].at # "loaded"
    <3>1. /\ IF resume[r].at = "resolving" THEN torn' = torn \cup Decided(r) /\ unsaved' = unsaved
             ELSE torn' = torn /\ unsaved' = IF rows[c] = NoRow THEN unsaved \cup {c} ELSE unsaved
      BY <1>11 DEF WriteFails, Absent
    <3>2. \A p \in Pause, d \in Call : Holds(r, p, d) => Holds(r, p, d)' \/ d \in unsaved' \/ rows[d] # NoRow
      BY <2>1, <3>1 DEF Holds
    <3>. QED BY <2>1, <2>2, <2>4, <3>1, <3>2, TornStep
  <2>. QED BY <2>3, <2>4
<1>12. ASSUME NEW r \in Resumer, Dies(r) PROVE Sound'
  <2>1. /\ Others(r) /\ resume'[r].at = "idle" /\ resume'[r].approvals = {} /\ resume'[r].denials = {}
        /\ resume'[r].next = 0 /\ UNCHANGED <<rows, batch, pauses, overlap>> /\ unsaved \subseteq unsaved'
    BY <1>12, <1>a, ResetEffect DEF Dies
  <2>2. CASE resume[r].at = "loaded"
    <3>1. PICK calls \in SUBSET Runs(r) : Executes(r, calls)
      BY <1>12, <2>2 DEF Dies
    <3>2. torn' = torn \cup Decided(r)
      BY <1>12, <2>2 DEF Dies
    <3>a. pauses \in Nat /\ pauses' = pauses
      BY <2>1 DEF TypeOK
    <3>b. Batches /\ batch' = batch
      BY <2>1 DEF Sound
    <3>c. Batches'
      BY <3>a, <3>b DEF Batches
    <3>3. Batches' /\ pauses \in Nat /\ pauses' = pauses
      BY <3>a, <3>c
    <3>4. pauses <= pauses' /\ \A p \in Pause : p <= pauses => batch'[p] = batch[p]
      BY <2>1, <3>3
    <3>. QED BY <1>0, <2>1, <3>1, <3>2, <3>3, <3>4, AnswerStep
  <2>3. CASE resume[r].at # "loaded"
    <3>1. UNCHANGED <<executed, consumed>>
      BY <1>12, <2>3 DEF Dies, Executes
    <3>2. torn' = IF resume[r].at = "resolving" /\ resume[r].todo # {} THEN torn \cup Decided(r) ELSE torn
      BY <1>12, <2>3 DEF Dies
    <3>3. unsaved' = unsaved \cup {c \in (IF resume[r].at = "resolving" /\ resume[r].next # 0 THEN batch[resume[r].next]
                                       ELSE IF resume[r].at \in {"persisting", "again"} THEN resume[r].todo ELSE {}) : rows[c] = NoRow}
      BY <1>12 DEF Dies, Absent
    <3>4. \A p \in Pause, d \in Call : d \in batch[p] /\ Holds(r, p, d) => d \in unsaved' \/ rows[d] # NoRow
      BY <3>3 DEF Holds
    <3>. QED BY <2>1, <2>3, <3>1, <3>2, <3>4, TornStep
  <2>. QED BY <2>2, <2>3
<1>13. CASE UNCHANGED vars
  BY <1>13 DEF vars, history, Sound, Batches, Works, Work, Rows, Done, Answered, Resolving, Apart, Engaged, Late,
               Denied, ExecutedOnce, Filed, Holds, Unresolved, Decided
<1>. QED BY <1>1, <1>3, <1>4, <1>5, <1>6, <1>8, <1>9, <1>10, <1>11, <1>12, <1>13 DEF Next

(***************************************************************************)
(* What the runs check.                                                    *)
(***************************************************************************)

LEMMA SoundInit == Init => TypeOK /\ Hands /\ Sound
<1>. SUFFICES ASSUME Init PROVE TypeOK /\ Hands /\ Sound
  OBVIOUS
<1>1. TypeOK /\ Hands
  BY TypeInit
<1>2. PICK r \in Resumer, calls \in SUBSET Call :
        /\ batch = [p \in Pause |-> IF p = 1 THEN calls ELSE {}]
        /\ resume = [q \in Resumer |->
             IF q = r THEN [Idle EXCEPT !.at = "persisting", !.next = 1, !.todo = calls] ELSE Idle]
  BY DEF Init
<1>3. /\ rows = [c \in Call |-> NoRow] /\ executed = [c \in Call |-> 0] /\ pauses = 1
      /\ consumed = {} /\ overlap = {} /\ torn = {} /\ unsaved = {} /\ Unresolved = {}
  BY DEF Init, Unresolved
<1>. DEFINE writer == [Idle EXCEPT !.at = "persisting", !.next = 1, !.todo = calls]
<1>a. /\ writer.approvals = {} /\ writer.denials = {} /\ writer.at = "persisting"
      /\ writer.next = 1 /\ writer.todo = calls
  BY DEF Idle
<1>b. Idle.approvals = {} /\ Idle.denials = {} /\ Idle.at = "idle" /\ Idle.next = 0
  BY DEF Idle
<1>c. resume[r] = writer /\ \A q \in Resumer : q # r => resume[q] = Idle
  BY <1>2
<1>. HIDE DEF writer
<1>4. /\ \A q \in Resumer : /\ resume[q].approvals = {} /\ resume[q].denials = {} /\ resume[q].at \in {"idle", "persisting"}
                           /\ resume[q].next <= 1
      /\ \A q \in Resumer : resume[q].at = "persisting" => q = r
      /\ resume[r].at = "persisting" /\ resume[r].next = 1 /\ resume[r].todo = calls /\ batch[1] = calls
  <2>1. batch[1] = calls
    BY <1>2
  <2>2. \A q \in Resumer : q = r \/ resume[q] = Idle
    BY <1>c
  <2>. QED BY <1>a, <1>b, <1>c, <2>1, <2>2
<1>5. \A p \in Pause : p # 1 => batch[p] = {}
  BY <1>2
<1>6. Batches /\ Rows /\ Done /\ Answered /\ ExecutedOnce
  BY <1>3, <1>5 DEF Batches, Rows, Done, Answered, ExecutedOnce
<1>7. Works
  BY <1>3, <1>4 DEF Works, Work, Decided
<1>8. Apart /\ Late /\ Denied
  BY <1>3, <1>4 DEF Apart, Late, Denied, Engaged, Decided
<1>9. Filed
  BY <1>3, <1>4, <1>5 DEF Filed, Holds
<1>. QED BY <1>1, <1>6, <1>7, <1>8, <1>9 DEF Sound

LEMMA SoundAlways == Spec => [](TypeOK /\ Hands /\ Sound)
<1>1. TypeOK /\ Hands /\ Sound /\ [Next]_vars => (TypeOK /\ Hands /\ Sound)'
  BY TypeStep, SoundStep
<1>. QED BY <1>1, SoundInit, PTL DEF Spec

(* A call is executed at most once and a denied call never, unless two     *)
(* resumes overlapped or one left its rows torn (services/execution.py).   *)
THEOREM DecisionsAreHonoured == Spec => []Honoured
<1>1. Sound => Honoured
  BY DEF Sound, Denied, Honoured, DeniedStaysDenied
<1>. QED BY <1>1, SoundAlways, PTL

(* A pause nobody has answered keeps an open row for each of its calls     *)
(* whose write was not lost.                                               *)
THEOREM NothingIsForgotten == Spec => []NothingForgotten
<1>1. TypeOK /\ Sound => NothingForgotten
  <2>. SUFFICES ASSUME TypeOK, Sound, NEW p \in 1 .. pauses, p \notin consumed, ~Persisting(p),
                       NEW c \in batch[p] \ unsaved
                PROVE  c \in Unresolved
    BY DEF NothingForgotten
  <2>1. p \in Pause /\ p <= pauses
    BY DEF TypeOK
  <2>2. \A r \in Resumer : ~Holds(r, p, c)
    BY DEF Holds, Persisting
  <2>. QED BY <2>1, <2>2 DEF Sound, Filed
<1>. QED BY <1>1, SoundAlways, PTL

(* No call of a pause is executed before every call of it has a row a      *)
(* human was shown.                                                        *)
THEOREM ShownBeforeTheyAreExecuted == Spec => []ShownBeforeExecuted
<1>1. TypeOK /\ Sound => ShownBeforeExecuted
  <2>. SUFFICES ASSUME TypeOK, Sound, NEW p \in 1 .. pauses, NEW d \in batch[p], executed[d] > 0,
                       NEW c \in batch[p]
                PROVE  rows[c] # NoRow
    BY DEF ShownBeforeExecuted
  <2>1. p \in Pause /\ d \in Call
    BY DEF TypeOK
  <2>2. PICK q \in consumed : d \in batch[q]
    BY <2>1 DEF Sound, Done
  <2>3. q = p
    BY <2>1, <2>2 DEF Sound, Batches, TypeOK
  <2>. QED BY <2>2, <2>3 DEF Sound, Done
<1>. QED BY <1>1, SoundAlways, PTL
=============================================================================
