---------------------------- MODULE Conversation ----------------------------
(***************************************************************************)
(* The messages of chat conversations in the daemon and the bot: a message *)
(* starts a run, which takes the history of its conversation before and    *)
(* puts it back after, or is the answer to the question a run of the same  *)
(* conversation has asked and waits for (the clarify tool).                *)
(*                                                                         *)
(* Every message comes on a thread of its own.  The questions asked are    *)
(* kept by conversation under a lock; the run that waits does so outside.  *)
(***************************************************************************)
EXTENDS Integers, Sequences, FiniteSets, SequencesExt

CONSTANTS
  Key,           \* conversations
  Serial,        \* those of Telegram, whose library awaits the handler of one update
                 \* before it takes the next
  Message,       \* inbound messages, and the runs they start
  MaxConcurrent, \* _MAX_CONCURRENT
  MaxClarify,    \* max_clarifications
  MaxStored,     \* max_conversations
  None           \* no message

ASSUME ConversationAssumption ==
  /\ Serial \subseteq Key
  /\ IsFiniteSet(Message) /\ None \notin Message
  /\ MaxConcurrent \in Nat \ {0} /\ MaxClarify \in Nat /\ MaxStored \in Nat \ {0}

VARIABLES
  key,     \* conversation_key of each message
  at,      \* what became of each message
  pending, \* _pending_clarifications: the run whose question is open
  answer,  \* the answer of the question a run asks, None: its event is not set
  asked,   \* questions each run has asked
  prior,   \* the turns each run knows: its prior history, its own message, its answers
  recent,  \* keys of the conversation store, the most recent last
  turns,   \* the history stored for each key
  taken,   \* history: the answers each run was given
  due,     \* history: messages sent as the next one to a run that waits
  lost,    \* history: messages that replaced an answer not read yet, or came after it
  crowded, \* history: conversations in which two runs were at work at once
  evicted  \* history: conversations the store has dropped

questions == <<pending, answer, asked>>
store == <<recent, turns>>
history == <<taken, due, lost, crowded, evicted>>
vars == <<key, at, questions, prior, store, history>>

AtWork == {"running", "waiting", "leaving"}
At == AtWork \cup {"unsent", "sent", "consumed", "entering", "refused", "ended"}

TypeOK ==
  /\ key \in [Message -> Key]
  /\ at \in [Message -> At]
  /\ pending \in [Key -> Message \cup {None}]
  /\ answer \in [Message -> Message \cup {None}]
  /\ asked \in [Message -> 0 .. MaxClarify]
  /\ prior \in [Message -> SUBSET Message]
  /\ recent \in Seq(Key) /\ IsInjective(recent)
  /\ turns \in [Key -> SUBSET Message]
  /\ taken \in [Message -> SUBSET Message]
  /\ due \subseteq Message /\ lost \subseteq Message /\ crowded \subseteq Key /\ evicted \subseteq Key

Init ==
  /\ key \in [Message -> Key]
  /\ at = [m \in Message |-> "unsent"]
  /\ pending = [k \in Key |-> None]
  /\ answer = [m \in Message |-> None]
  /\ asked = [m \in Message |-> 0]
  /\ prior = [m \in Message |-> {}]
  /\ recent = <<>>
  /\ turns = [k \in Key |-> {}]
  /\ taken = [m \in Message |-> {}]
  /\ due = {} /\ lost = {} /\ crowded = {} /\ evicted = {}

Goes(m, from, to) == at[m] = from /\ at' = [at EXCEPT ![m] = to]
Working == {m \in Message : at[m] \in AtWork}

(* Mutant: any open question takes the message. *)
AnyOpen(m) == IF \E k \in Key : pending[k] # None
              THEN pending[CHOOSE k \in Key : pending[k] # None] ELSE None

Open(m) == pending[key[m]]

(* The run of this conversation waits, and no message has come for it yet. *)
Awaited(k) ==
  LET r == pending[k]
  IN  /\ r # None /\ at[r] = "waiting" /\ answer[r] = None
      /\ \A m \in Message : key[m] = k => at[m] # "sent"

(* The user writes a message.                                              *)
Send(m) ==
  /\ Goes(m, "unsent", "sent")
  /\ due' = IF Awaited(key[m]) THEN due \cup {m} ELSE due
  /\ UNCHANGED <<key, questions, prior, store, taken, lost, crowded, evicted>>

(* on_message awaits the run its message starts.                           *)
Deliverable(m) ==
  key[m] \in Serial =>
    \A r \in Message : key[r] \in Serial => at[r] \notin AtWork \cup {"entering"}

(* The first thing _on_trigger does, under _pending_lock.                  *)
Answers(m) ==
  LET r == Open(m)
  IN  /\ r # None /\ Deliverable(m)
      /\ Goes(m, "sent", "consumed")
      /\ answer' = [answer EXCEPT ![r] = m]
      /\ lost' = IF at[r] = "leaving" THEN lost \cup {m}
                 ELSE IF answer[r] # None THEN lost \cup {answer[r]} ELSE lost
  /\ UNCHANGED <<key, pending, asked, prior, store, taken, due, crowded, evicted>>

Enters(m) ==
  /\ Open(m) = None /\ Deliverable(m)
  /\ Goes(m, "sent", "entering")
  /\ UNCHANGED <<key, questions, prior, store, history>>

(* The breaker, the semaphore or the budget refuse the message.            *)
Refuse(m) ==
  /\ Goes(m, "entering", "refused")
  /\ UNCHANGED <<key, questions, prior, store, history>>

Stored(k) == k \in ToSet(recent)
Without(k) == IF Stored(k) THEN RemoveAt(recent, CHOOSE i \in DOMAIN recent : recent[i] = k) ELSE recent
Touched(k) == Append(Without(k), k)

(* A run begins with what the store has of its conversation, which may be  *)
(* too old by now.                                                         *)
Admit(m) ==
  /\ Cardinality(Working) < MaxConcurrent
  /\ Goes(m, "entering", "running")
  /\ LET k == key[m]
     IN  /\ \/ /\ Stored(k) /\ recent' = Touched(k) /\ UNCHANGED <<turns, evicted>>
               /\ prior' = [prior EXCEPT ![m] = turns[k] \cup {m}]
            \/ /\ Stored(k) /\ recent' = Without(k)
               /\ turns' = [turns EXCEPT ![k] = {}] /\ evicted' = evicted \cup {k}
               /\ prior' = [prior EXCEPT ![m] = {m}]
            \/ /\ ~Stored(k) /\ UNCHANGED <<recent, turns, evicted>>
               /\ prior' = [prior EXCEPT ![m] = {m}]
         /\ crowded' = IF \E r \in Working : key[r] = k THEN crowded \cup {k} ELSE crowded
  /\ UNCHANGED <<key, questions, taken, due, lost>>

(* The question of a run takes the place of any other of its conversation. *)
Ask(r) ==
  /\ asked[r] < MaxClarify
  /\ Goes(r, "running", "waiting")
  /\ asked' = [asked EXCEPT ![r] = @ + 1]
  /\ answer' = [answer EXCEPT ![r] = None]
  /\ pending' = [pending EXCEPT ![key[r]] = r]
  /\ UNCHANGED <<key, prior, store, history>>

Turn(r) == {answer[r]}

Wake(r) ==
  /\ answer[r] # None
  /\ Goes(r, "waiting", "leaving")
  /\ prior' = [prior EXCEPT ![r] = @ \cup Turn(r)]
  /\ taken' = [taken EXCEPT ![r] = @ \cup Turn(r)]
  /\ UNCHANGED <<key, questions, store, due, lost, crowded, evicted>>

(* The wait has timed out, or the question could not be sent.              *)
TimeOut(r) ==
  /\ answer[r] = None
  /\ Goes(r, "waiting", "leaving")
  /\ UNCHANGED <<key, questions, prior, store, history>>

(* Mutant: a question that was not answered stays open. *)
PoppedIfAnswered(r) == IF answer[r] = None THEN pending ELSE [pending EXCEPT ![key[r]] = None]

Popped(r) == [pending EXCEPT ![key[r]] = None]

(* finally: whichever question is open there now is closed.                *)
Leave(r) ==
  /\ Goes(r, "leaving", "running")
  /\ pending' = Popped(r)
  /\ UNCHANGED <<key, answer, asked, prior, store, history>>

(* Mutant: only what the run was started with. *)
OwnTurn(r) == {r}

Kept(r) == prior[r]

Over(s) == Len(s) > MaxStored

(* A run that has messages to keep puts them in the store, which drops its *)
(* oldest; one that failed has none.                                       *)
Finish(r) ==
  /\ Goes(r, "running", "ended")
  /\ LET put == Touched(key[r])
         out == IF Over(put) THEN {Head(put)} ELSE {}
     IN  \/ UNCHANGED <<recent, turns, evicted>>
         \/ /\ recent' = IF Over(put) THEN Tail(put) ELSE put
            /\ turns' = [k \in Key |-> IF k \in out THEN {} ELSE IF k = key[r] THEN Kept(r) ELSE turns[k]]
            /\ evicted' = evicted \cup out
  /\ UNCHANGED <<key, questions, prior, taken, due, lost, crowded>>

Handle(m) ==
  \/ Send(m) \/ Answers(m) \/ Enters(m) \/ Refuse(m) \/ Admit(m) \/ Ask(m)
  \/ Wake(m) \/ TimeOut(m) \/ Leave(m) \/ Finish(m)

Next == \E m \in Message : Handle(m)

Spec == Init /\ [][Next]_vars

----------------------------------------------------------------------------
(* Only a run at work on a question has it open: no message is swallowed   *)
(* for a run that has ended (the finally of _daemon_clarify).              *)
NoDeadQuestion ==
  \A k \in Key : pending[k] # None =>
    at[pending[k]] \in {"waiting", "leaving"} /\ key[pending[k]] = k

(* A run that waits can be answered, as long as its conversation had no    *)
(* two runs at once: then one may replace, or close, the other's question. *)
QuestionStaysOpen ==
  \A r \in Message : at[r] = "waiting" /\ key[r] \notin crowded => pending[key[r]] = r

(* The open questions are those of the runs that wait.                     *)
OpenQuestions == NoDeadQuestion /\ QuestionStaysOpen

(* A message taken as an answer is read by a run of its own conversation,  *)
(* is about to be, or was lost to a race: a second message came before the *)
(* run had read the first, or after it had.                                *)
AnswerIsRead ==
  \A m \in Message \ lost : at[m] = "consumed" =>
    \E r \in Message : key[r] = key[m] /\
      (m \in taken[r] \/ (at[r] = "waiting" /\ answer[r] = m))

(* "The next inbound message on the same conversation is consumed as the   *)
(* answer" (docs/agents/tools.md): a message sent to a run that waits is   *)
(* its answer, however the user and the handlers are timed.  On Telegram   *)
(* it is not: the message is not handled before the run has ended.         *)
NextMessageIsAnswer == \A m \in due : at[m] \in {"sent", "consumed"}

(* A turn once stored is forgotten only with its conversation, or when     *)
(* another run had started from an older history.                          *)
TurnsAreKept ==
  [][\A k \in Key : turns[k] \subseteq turns'[k] \/ k \in crowded \/ k \in evicted']_vars
=============================================================================
