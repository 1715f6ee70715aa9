------------------------- MODULE ConversationProofs -------------------------
(***************************************************************************)
(* Proofs about Conversation, for any number of conversations, messages    *)
(* and runs.                                                               *)
(***************************************************************************)
EXTENDS Conversation, SequenceTheorems, TLAPS

(***************************************************************************)
(* The order of the store.                                                 *)
(***************************************************************************)

(* To leave out one place of an injective sequence.                        *)
LEMMA RemovedPlace ==
  ASSUME NEW q \in Seq(Key), IsInjective(q), NEW i \in 1 .. Len(q)
  PROVE  /\ RemoveAt(q, i) \in Seq(Key)
         /\ IsInjective(RemoveAt(q, i))
         /\ ToSet(RemoveAt(q, i)) = ToSet(q) \ {q[i]}
<1>. DEFINE n == Len(q)
            a == SubSeq(q, 1, i - 1)
            b == SubSeq(q, i + 1, n)
            s == a \o b
<1>0. n \in Nat /\ DOMAIN q = 1 .. n /\ i \in Int
  OBVIOUS
<1>1. a \in Seq(Key) /\ Len(a) = i - 1 /\ \A j \in 1 .. i - 1 : a[j] = q[j]
  BY <1>0
<1>2. b \in Seq(Key) /\ Len(b) = n - i /\ \A j \in 1 .. n - i : b[j] = q[j + i]
  <2>1. i + 1 \in Int /\ n \in Int /\ \A j \in i + 1 .. n : q[j] \in Key
    BY <1>0
  <2>2. /\ b \in Seq(Key) /\ Len(b) = IF i + 1 <= n THEN n - (i + 1) + 1 ELSE 0
        /\ \A j \in 1 .. n - (i + 1) + 1 : b[j] = q[i + 1 + j - 1]
    BY <2>1, SubSeqProperties
  <2>3. i <= n /\ n - (i + 1) + 1 = n - i /\ \A j \in 1 .. n - i : i + 1 + j - 1 = j + i
    BY <1>0
  <2>. HIDE DEF b, n
  <2>4. ASSUME NEW j \in 1 .. n - i PROVE b[j] = q[j + i]
    BY <2>2, <2>3
  <2>5. Len(b) = n - i
    BY <1>0, <2>2, <2>3
  <2>. QED BY <2>2, <2>4, <2>5
<1>3. RemoveAt(q, i) = s
  BY DEF RemoveAt
<1>. HIDE DEF a, b
<1>4. s \in Seq(Key) /\ Len(s) = n - 1
  <2>1. s \in Seq(Key) /\ Len(s) = Len(a) + Len(b)
    BY <1>1, <1>2, ConcatProperties
  <2>. QED BY <1>0, <1>1, <1>2, <2>1
<1>5. \A j \in 1 .. i - 1 : s[j] = q[j]
  BY <1>0, <1>1, <1>2
<1>6. \A j \in i .. n - 1 : s[j] = q[j + 1]
  <2>. TAKE j \in i .. n - 1
  <2>1. s[j] = b[j - (i - 1)]
    BY <1>0, <1>1, <1>2
  <2>. QED BY <1>0, <1>2, <2>1
<1>. HIDE DEF s
<1>7. DOMAIN s = 1 .. n - 1
  BY <1>4
<1>8. \A x, y \in 1 .. n : q[x] = q[y] => x = y
  BY <1>0 DEF IsInjective
<1>9. \A x, y \in 1 .. n - 1 : s[x] = s[y] => x = y
  <2>. TAKE x, y \in 1 .. n - 1
  <2>1. CASE x < i /\ y < i
    BY <1>0, <1>5, <1>8, <2>1
  <2>2. CASE x < i /\ y >= i
    BY <1>0, <1>5, <1>6, <1>8, <2>2
  <2>3. CASE x >= i /\ y < i
    BY <1>0, <1>5, <1>6, <1>8, <2>3
  <2>4. CASE x >= i /\ y >= i
    BY <1>0, <1>6, <1>8, <2>4
  <2>. QED BY <1>0, <2>1, <2>2, <2>3, <2>4
<1>10. ASSUME NEW x \in 1 .. n - 1 PROVE s[x] \in {q[j] : j \in 1 .. n} \ {q[i]}
  <2>1. CASE x < i
    BY <1>0, <1>5, <1>8, <2>1
  <2>2. CASE x >= i
    BY <1>0, <1>6, <1>8, <2>2
  <2>. QED BY <1>0, <2>1, <2>2
<1>11. ASSUME NEW x \in 1 .. n, x # i PROVE \E j \in 1 .. n - 1 : s[j] = q[x]
  <2>1. CASE x < i
    BY <1>0, <1>5, <2>1
  <2>2. CASE x > i
    <3>1. x - 1 \in i .. n - 1 /\ x - 1 \in 1 .. n - 1 /\ x - 1 + 1 = x
      BY <1>0, <2>2
    <3>. QED BY <1>6, <3>1
  <2>. QED BY <1>0, <1>11, <2>1, <2>2
<1>12. ToSet(q) = {q[j] : j \in 1 .. n} /\ ToSet(s) = {s[j] : j \in 1 .. n - 1}
  BY <1>0, <1>7 DEF ToSet
<1>13. IsInjective(s)
  BY <1>7, <1>9 DEF IsInjective
<1>14. ToSet(s) = ToSet(q) \ {q[i]}
  <2>. HIDE DEF n
  <2>1. ASSUME NEW x \in ToSet(s) PROVE x \in ToSet(q) \ {q[i]}
    BY <1>10, <1>12, <2>1
  <2>2. ASSUME NEW x \in ToSet(q) \ {q[i]} PROVE x \in ToSet(s)
    <3>1. PICK j \in 1 .. n : x = q[j] /\ j # i
      BY <1>12, <2>2
    <3>. QED BY <1>11, <1>12, <3>1
  <2>. QED BY <2>1, <2>2
<1>. QED BY <1>3, <1>4, <1>13, <1>14

(* To take a key out leaves the other keys, each of them once.             *)
LEMMA WithoutKey ==
  ASSUME recent \in Seq(Key), IsInjective(recent), NEW k \in Key
  PROVE  /\ Without(k) \in Seq(Key)
         /\ IsInjective(Without(k))
         /\ ToSet(Without(k)) = ToSet(recent) \ {k}
<1>1. CASE ~Stored(k)
  BY <1>1 DEF Without, Stored
<1>2. CASE Stored(k)
  <2>1. \E i \in DOMAIN recent : recent[i] = k
    BY <1>2 DEF Stored, ToSet
  <2>. DEFINE i == CHOOSE i \in DOMAIN recent : recent[i] = k
  <2>2. i \in DOMAIN recent /\ recent[i] = k
    BY <2>1
  <2>3. Without(k) = RemoveAt(recent, i)
    BY <1>2 DEF Without
  <2>. HIDE DEF i
  <2>4. i \in 1 .. Len(recent)
    BY <2>2
  <2>. QED BY <2>2, <2>3, <2>4, RemovedPlace
<1>. QED BY <1>1, <1>2

(* To touch a key puts it last.                                            *)
LEMMA TouchedKey ==
  ASSUME recent \in Seq(Key), IsInjective(recent), NEW k \in Key
  PROVE  /\ Touched(k) \in Seq(Key)
         /\ IsInjective(Touched(k))
         /\ ToSet(Touched(k)) = ToSet(recent) \cup {k}
<1>. DEFINE w == Without(k)
<1>1. w \in Seq(Key) /\ IsInjective(w) /\ ToSet(w) = ToSet(recent) \ {k}
  BY WithoutKey
<1>2. Touched(k) = Append(w, k)
  BY DEF Touched
<1>. HIDE DEF w
<1>. DEFINE n == Len(w)
            u == Append(w, k)
<1>3. /\ u \in Seq(Key) /\ Len(u) = n + 1 /\ u[n + 1] = k
      /\ \A j \in 1 .. n : u[j] = w[j]
      /\ n \in Nat /\ DOMAIN w = 1 .. n /\ DOMAIN u = 1 .. n + 1
  BY <1>1
<1>. HIDE DEF u
<1>a. \A j \in 1 .. n : w[j] # k
  BY <1>1, <1>3 DEF ToSet
<1>b. \A x, y \in 1 .. n : w[x] = w[y] => x = y
  BY <1>1, <1>3 DEF IsInjective
<1>c. \A x, y \in 1 .. n + 1 : u[x] = u[y] => x = y
  BY <1>3, <1>a, <1>b
<1>4. IsInjective(u)
  BY <1>3, <1>c DEF IsInjective
<1>5. ToSet(u) = ToSet(w) \cup {k}
  <2>1. ToSet(u) = {u[j] : j \in 1 .. n + 1} /\ ToSet(w) = {w[j] : j \in 1 .. n}
    BY <1>3 DEF ToSet
  <2>2. \A j \in 1 .. n + 1 : j \in 1 .. n \/ j = n + 1
    BY <1>3
  <2>3. 1 .. n \subseteq 1 .. n + 1 /\ n + 1 \in 1 .. n + 1
    BY <1>3
  <2>. QED BY <1>3, <2>1, <2>2, <2>3
<1>. QED BY <1>1, <1>2, <1>3, <1>4, <1>5 DEF u

(* To drop the oldest of at least two leaves the others.                   *)
LEMMA TailKeys ==
  ASSUME NEW s \in Seq(Key), IsInjective(s), Len(s) > 1
  PROVE  /\ Tail(s) \in Seq(Key) /\ IsInjective(Tail(s))
         /\ ToSet(Tail(s)) = ToSet(s) \ {Head(s)}
<1>. DEFINE n == Len(s)
            t == Tail(s)
<1>1. /\ t \in Seq(Key) /\ Len(t) = n - 1 /\ Head(s) = s[1] /\ n \in Nat
      /\ \A j \in 1 .. n - 1 : t[j] = s[j + 1]
      /\ DOMAIN s = 1 .. n /\ DOMAIN t = 1 .. n - 1
  OBVIOUS
<1>2. ToSet(s) = {s[j] : j \in 1 .. n} /\ ToSet(t) = {t[j] : j \in 1 .. n - 1}
  BY <1>1 DEF ToSet
<1>3. \A x, y \in 1 .. n : s[x] = s[y] => x = y
  BY <1>1 DEF IsInjective
<1>. HIDE DEF t
<1>4. \A x, y \in 1 .. n - 1 : t[x] = t[y] => x = y
  BY <1>1, <1>3
<1>5. IsInjective(t)
  BY <1>1, <1>4 DEF IsInjective
<1>6. ASSUME NEW x \in 2 .. n PROVE \E j \in 1 .. n - 1 : t[j] = s[x]
  <2>1. x - 1 \in 1 .. n - 1 /\ x - 1 + 1 = x
    BY <1>1
  <2>. QED BY <1>1, <2>1
<1>7. ASSUME NEW x \in 1 .. n - 1 PROVE t[x] = s[x + 1] /\ x + 1 \in 2 .. n /\ s[x + 1] # s[1]
  BY <1>1, <1>3
<1>8. \A x \in 1 .. n : x = 1 \/ x \in 2 .. n
  BY <1>1
<1>9. 2 .. n \subseteq 1 .. n /\ s[n] # s[1]
  BY <1>1, <1>3
<1>10. ToSet(t) = ToSet(s) \ {s[1]}
  <2>. HIDE DEF n
  <2>1. ASSUME NEW x \in ToSet(t) PROVE x \in ToSet(s) \ {s[1]}
    BY <1>2, <1>7, <1>9, <2>1
  <2>2. ASSUME NEW x \in ToSet(s) \ {s[1]} PROVE x \in ToSet(t)
    <3>1. PICK j \in 1 .. n : x = s[j] /\ j # 1
      BY <1>2, <2>2
    <3>. QED BY <1>2, <1>6, <1>8, <3>1
  <2>. QED BY <2>1, <2>2
<1>. QED BY <1>1, <1>5, <1>9, <1>10 DEF t

(* What is left of the store when a run has put its history there.         *)
LEMMA StoreAfterPut ==
  ASSUME recent \in Seq(Key), IsInjective(recent), NEW k \in Key, Over(Touched(k))
  PROVE  /\ Tail(Touched(k)) \in Seq(Key) /\ IsInjective(Tail(Touched(k)))
         /\ ToSet(Tail(Touched(k))) = ToSet(Touched(k)) \ {Head(Touched(k))}
         /\ Head(Touched(k)) \in Key
<1>1. Touched(k) \in Seq(Key) /\ IsInjective(Touched(k))
  BY TouchedKey
<1>2. Len(Touched(k)) > 1
  BY <1>1, ConversationAssumption DEF Over
<1>3. Head(Touched(k)) \in Key
  BY <1>1, <1>2
<1>. QED BY <1>1, <1>2, <1>3, TailKeys

(***************************************************************************)
(* Type correctness.                                                       *)
(***************************************************************************)

THEOREM ConversationTypeCorrect == Spec => []TypeOK
<1>. USE DEF At, AtWork
<1>1. Init => TypeOK
  <2>1. <<>> \in Seq(Key) /\ IsInjective(<<>>)
    BY DEF IsInjective
  <2>. QED BY <2>1, ConversationAssumption DEF Init, TypeOK
<1>2. TypeOK /\ [Next]_vars => TypeOK'
  <2>. SUFFICES ASSUME TypeOK, [Next]_vars PROVE TypeOK'
    OBVIOUS
  <2>. USE DEF TypeOK, Goes
  <2>1. ASSUME NEW m \in Message, Answers(m) PROVE TypeOK'
    BY <2>1 DEF Answers, Open, store
  <2>2. ASSUME NEW m \in Message, Enters(m) PROVE TypeOK'
    BY <2>2 DEF Enters, questions, store, history
  <2>3. ASSUME NEW m \in Message, Refuse(m) PROVE TypeOK'
    BY <2>3 DEF Refuse, questions, store, history
  <2>4. ASSUME NEW m \in Message, Admit(m) PROVE TypeOK'
    <3>0. key[m] \in Key /\ recent' \in {recent, Touched(key[m]), Without(key[m])}
      BY <2>4 DEF Admit
    <3>1. recent' \in Seq(Key) /\ IsInjective(recent')
      <4>1. Touched(key[m]) \in Seq(Key) /\ IsInjective(Touched(key[m]))
        BY <3>0, TouchedKey
      <4>2. Without(key[m]) \in Seq(Key) /\ IsInjective(Without(key[m]))
        BY <3>0, WithoutKey
      <4>. QED BY <3>0, <4>1, <4>2
    <3>2. turns' \in [Key -> SUBSET Message] /\ evicted' \subseteq Key
      <4>1. /\ turns' \in {turns, [turns EXCEPT ![key[m]] = {}]}
            /\ evicted' \in {evicted, evicted \cup {key[m]}}
        BY <2>4 DEF Admit
      <4>2. [turns EXCEPT ![key[m]] = {}] \in [Key -> SUBSET Message]
        OBVIOUS
      <4>. QED BY <3>0, <4>1, <4>2
    <3>a. prior' \in {[prior EXCEPT ![m] = turns[key[m]] \cup {m}], [prior EXCEPT ![m] = {m}]}
      BY <2>4 DEF Admit
    <3>b. turns[key[m]] \cup {m} \in SUBSET Message /\ {m} \in SUBSET Message
      BY <3>0
    <3>3. prior' \in [Message -> SUBSET Message]
      BY <3>a, <3>b
    <3>4. crowded' \subseteq Key
      BY <2>4 DEF Admit
    <3>5. /\ at' = [at EXCEPT ![m] = "running"]
          /\ UNCHANGED <<key, pending, answer, asked, taken, due, lost>>
      BY <2>4 DEF Admit, questions
    <3>6. at' \in [Message -> At]
      BY <3>5
    <3>. QED BY <3>1, <3>2, <3>3, <3>4, <3>5, <3>6
  <2>5. ASSUME NEW m \in Message, Ask(m) PROVE TypeOK'
    BY <2>5, ConversationAssumption DEF Ask, store, history
  <2>6. ASSUME NEW m \in Message, Wake(m) PROVE TypeOK'
    BY <2>6 DEF Wake, Turn, questions, store
  <2>7. ASSUME NEW m \in Message, TimeOut(m) PROVE TypeOK'
    BY <2>7 DEF TimeOut, questions, store, history
  <2>8. ASSUME NEW m \in Message, Leave(m) PROVE TypeOK'
    BY <2>8 DEF Leave, Popped, store, history
  <2>9. ASSUME NEW m \in Message, Finish(m) PROVE TypeOK'
    <3>1. key[m] \in Key
      OBVIOUS
    <3>. DEFINE put == Touched(key[m])
    <3>2. recent' \in {recent, put} \/ (Over(put) /\ recent' = Tail(put))
      BY <2>9 DEF Finish
    <3>3. recent' \in Seq(Key) /\ IsInjective(recent')
      <4>1. put \in Seq(Key) /\ IsInjective(put)
        BY <3>1, TouchedKey
      <4>2. Over(put) => Tail(put) \in Seq(Key) /\ IsInjective(Tail(put)) /\ Head(put) \in Key
        BY <3>1, StoreAfterPut
      <4>. QED BY <3>2, <4>1, <4>2
    <3>4. turns' \in [Key -> SUBSET Message] /\ evicted' \subseteq Key
      BY <2>9, <3>1, StoreAfterPut DEF Finish, Kept
    <3>. QED BY <2>9, <3>3, <3>4 DEF Finish, questions
  <2>10. CASE UNCHANGED vars
    BY <2>10 DEF vars, questions, store, history
  <2>11. ASSUME NEW m \in Message, Send(m) PROVE TypeOK'
    BY <2>11 DEF Send, questions, store
  <2>. QED BY <2>1, <2>2, <2>3, <2>4, <2>5, <2>6, <2>7, <2>8, <2>9, <2>10, <2>11 DEF Next, Handle
<1>. QED BY <1>1, <1>2, PTL DEF Spec

(***************************************************************************)
(* Questions and their answers.                                            *)
(***************************************************************************)

(* Two runs at work on a conversation make it a crowded one.               *)
Alone == \A r, q \in Message :
  r # q /\ at[r] \in AtWork /\ at[q] \in AtWork /\ key[r] = key[q] => key[r] \in crowded

LEMMA AloneStep ==
  ASSUME TypeOK, Alone, [Next]_vars
  PROVE  Alone'
<1>. USE DEF Goes, AtWork, Alone
<1>1. ASSUME NEW m \in Message, Answers(m) \/ Enters(m) \/ Refuse(m) PROVE Alone'
  <2>1. CASE Answers(m)
    BY <2>1 DEF Answers, questions, history, TypeOK
  <2>2. CASE Enters(m)
    BY <2>2 DEF Enters, questions, history, TypeOK
  <2>3. CASE Refuse(m)
    BY <2>3 DEF Refuse, questions, history, TypeOK
  <2>. QED BY <1>1, <2>1, <2>2, <2>3
<1>2. ASSUME NEW m \in Message, Admit(m) PROVE Alone'
  BY <1>2 DEF Admit, Working, TypeOK
<1>3. ASSUME NEW m \in Message, Ask(m) \/ Wake(m) \/ TimeOut(m) PROVE Alone'
  <2>1. CASE Ask(m)
    BY <2>1 DEF Ask, history, TypeOK
  <2>2. CASE Wake(m)
    BY <2>2 DEF Wake, TypeOK
  <2>3. CASE TimeOut(m)
    BY <2>3 DEF TimeOut, history, TypeOK
  <2>. QED BY <1>3, <2>1, <2>2, <2>3
<1>4. ASSUME NEW m \in Message, Leave(m) \/ Finish(m) PROVE Alone'
  BY <1>4 DEF Leave, Finish, history, TypeOK
<1>5. CASE UNCHANGED vars
  BY <1>5 DEF vars, history
<1>s. ASSUME NEW m \in Message, Send(m) PROVE Alone'
  BY <1>s DEF Send, questions, TypeOK
<1>. QED BY <1>s, <1>1, <1>2, <1>3, <1>4, <1>5 DEF Next, Handle

LEMMA QuestionsStep ==
  ASSUME TypeOK, Alone, OpenQuestions, [Next]_vars
  PROVE  OpenQuestions'
<1>. USE DEF Goes, AtWork, OpenQuestions, NoDeadQuestion, QuestionStaysOpen
<1>1. ASSUME NEW m \in Message, Answers(m) \/ Enters(m) \/ Refuse(m) PROVE OpenQuestions'
  <2>1. CASE Answers(m)
    BY <2>1 DEF Answers, questions, history, TypeOK
  <2>2. CASE Enters(m)
    BY <2>2 DEF Enters, questions, history, TypeOK
  <2>3. CASE Refuse(m)
    BY <2>3 DEF Refuse, questions, history, TypeOK
  <2>. QED BY <1>1, <2>1, <2>2, <2>3
<1>2. ASSUME NEW m \in Message, Admit(m) PROVE OpenQuestions'
  BY <1>2 DEF Admit, questions, TypeOK
<1>3. ASSUME NEW m \in Message, Ask(m) PROVE OpenQuestions'
  BY <1>3 DEF Ask, history, Alone, TypeOK
<1>4. ASSUME NEW m \in Message, Wake(m) \/ TimeOut(m) PROVE OpenQuestions'
  <2>1. CASE Wake(m)
    BY <2>1 DEF Wake, questions, history, TypeOK
  <2>2. CASE TimeOut(m)
    BY <2>2 DEF TimeOut, questions, history, TypeOK
  <2>. QED BY <1>4, <2>1, <2>2
<1>5. ASSUME NEW m \in Message, Leave(m) PROVE OpenQuestions'
  BY <1>5 DEF Leave, Popped, history, Alone, TypeOK
<1>6. ASSUME NEW m \in Message, Finish(m) PROVE OpenQuestions'
  BY <1>6 DEF Finish, questions, TypeOK
<1>7. CASE UNCHANGED vars
  BY <1>7 DEF vars, questions, history
<1>s. ASSUME NEW m \in Message, Send(m) PROVE OpenQuestions'
  BY <1>s DEF Send, questions, TypeOK
<1>. QED BY <1>s, <1>1, <1>2, <1>3, <1>4, <1>5, <1>6, <1>7 DEF Next, Handle

(* The open questions are those of the runs that wait: the finally of      *)
(* _daemon_clarify closes each, and no other run of a conversation that    *)
(* never had two at work can take its place.                               *)
THEOREM QuestionsAreTheWaitingRuns == Spec => []OpenQuestions
<1>1. Init => Alone /\ OpenQuestions
  BY DEF Init, Alone, OpenQuestions, NoDeadQuestion, QuestionStaysOpen, AtWork
<1>2. TypeOK /\ Alone /\ OpenQuestions /\ [Next]_vars => (Alone /\ OpenQuestions)'
  BY AloneStep, QuestionsStep
<1>. QED BY <1>1, <1>2, ConversationTypeCorrect, PTL DEF Spec

LEMMA AnswerStep ==
  ASSUME TypeOK, NoDeadQuestion, AnswerIsRead, [Next]_vars
  PROVE  AnswerIsRead'
<1>. USE DEF Goes, AnswerIsRead
<1>1. ASSUME NEW m \in Message, Answers(m) PROVE AnswerIsRead'
  <2>. DEFINE r == pending[key[m]]
  <2>1. /\ r \in Message /\ at[r] \in {"waiting", "leaving"} /\ key[r] = key[m] /\ r # m
        /\ at[m] = "sent"
    BY <1>1 DEF Answers, Open, NoDeadQuestion, TypeOK
  <2>2. SUFFICES ASSUME NEW n \in Message \ lost', at'[n] = "consumed"
                 PROVE \E q \in Message : key'[q] = key'[n] /\
                         (n \in taken'[q] \/ (at'[q] = "waiting" /\ answer'[q] = n))
    BY DEF AnswerIsRead
  <2>3. CASE n = m
    BY <1>1, <2>1, <2>2, <2>3 DEF Answers, Open, TypeOK
  <2>4. CASE n # m
    <3>1. at[n] = "consumed" /\ n \notin lost
      BY <1>1, <2>2, <2>4 DEF Answers, Open, TypeOK
    <3>2. PICK q \in Message : key[q] = key[n] /\
            (n \in taken[q] \/ (at[q] = "waiting" /\ answer[q] = n))
      BY <3>1
    <3>3. n \in taken[q] => n \in taken'[q]
      BY <1>1 DEF Answers
    <3>4. at[q] = "waiting" /\ answer[q] = n => q # r
      BY <1>1, <2>1, <2>2, ConversationAssumption DEF Answers, Open, TypeOK
    <3>5. at[q] = "waiting" /\ q # r => at'[q] = "waiting" /\ answer'[q] = answer[q]
      BY <1>1, <2>1 DEF Answers, Open, TypeOK
    <3>6. key' = key
      BY <1>1 DEF Answers
    <3>. QED BY <3>2, <3>3, <3>4, <3>5, <3>6
  <2>. QED BY <2>3, <2>4
<1>2. ASSUME NEW m \in Message, Enters(m) \/ Refuse(m) PROVE AnswerIsRead'
  <2>1. CASE Enters(m)
    BY <2>1 DEF Enters, questions, history, TypeOK
  <2>2. CASE Refuse(m)
    BY <2>2 DEF Refuse, questions, history, TypeOK
  <2>. QED BY <1>2, <2>1, <2>2
<1>3. ASSUME NEW m \in Message, Admit(m) PROVE AnswerIsRead'
  BY <1>3 DEF Admit, questions, TypeOK
<1>4. ASSUME NEW m \in Message, Ask(m) PROVE AnswerIsRead'
  BY <1>4 DEF Ask, history, TypeOK
<1>5. ASSUME NEW m \in Message, Wake(m) PROVE AnswerIsRead'
  BY <1>5 DEF Wake, Turn, questions, TypeOK
<1>6. ASSUME NEW m \in Message, TimeOut(m) PROVE AnswerIsRead'
  BY <1>6, ConversationAssumption DEF TimeOut, questions, history, TypeOK
<1>7. ASSUME NEW m \in Message, Leave(m) \/ Finish(m) PROVE AnswerIsRead'
  <2>1. CASE Leave(m)
    BY <2>1 DEF Leave, questions, history, TypeOK
  <2>2. CASE Finish(m)
    BY <2>2 DEF Finish, questions, history, TypeOK
  <2>. QED BY <1>7, <2>1, <2>2
<1>8. CASE UNCHANGED vars
  BY <1>8 DEF vars, questions, history
<1>s. ASSUME NEW m \in Message, Send(m) PROVE AnswerIsRead'
  BY <1>s DEF Send, questions, TypeOK
<1>. QED BY <1>s, <1>1, <1>2, <1>3, <1>4, <1>5, <1>6, <1>7, <1>8 DEF Next, Handle

(* A message taken as an answer reaches a run of its conversation, or lost *)
(* a race with another answer or with the end of the wait.                 *)
THEOREM AnswersAreRead == Spec => []AnswerIsRead
<1>1. Init => AnswerIsRead
  BY DEF Init, AnswerIsRead
<1>2. TypeOK /\ OpenQuestions /\ AnswerIsRead /\ [Next]_vars => AnswerIsRead'
  BY AnswerStep DEF OpenQuestions
<1>. QED BY <1>1, <1>2, ConversationTypeCorrect, QuestionsAreTheWaitingRuns, PTL DEF Spec

(***************************************************************************)
(* The history stored.                                                     *)
(***************************************************************************)

(* A key with turns is in the order of the store.                          *)
TurnsAreStored == \A k \in Key : turns[k] # {} => Stored(k)

(* A run knows the turns its conversation has stored, unless another run   *)
(* of it was at work as well, or the store has dropped the conversation.   *)
RunsKnowTurns ==
  \A k \in Key \ (crowded \cup evicted), r \in Message :
    key[r] = k /\ at[r] \in AtWork => turns[k] \subseteq prior[r]

LEMMA StoreStep ==
  ASSUME TypeOK, TurnsAreStored, [Next]_vars
  PROVE  TurnsAreStored'
<1>. USE DEF TurnsAreStored, Stored
<1>a. ASSUME UNCHANGED store PROVE TurnsAreStored'
  BY <1>a DEF store
<1>1. ASSUME NEW m \in Message, Admit(m) PROVE TurnsAreStored'
  <2>1. key[m] \in Key /\ recent \in Seq(Key) /\ IsInjective(recent)
    BY DEF TypeOK
  <2>2. ToSet(Touched(key[m])) = ToSet(recent) \cup {key[m]} /\ ToSet(Without(key[m])) = ToSet(recent) \ {key[m]}
    BY <2>1, TouchedKey, WithoutKey
  <2>. QED BY <1>1, <2>1, <2>2 DEF Admit, TypeOK
<1>2. ASSUME NEW m \in Message, Finish(m) PROVE TurnsAreStored'
  <2>1. key[m] \in Key /\ recent \in Seq(Key) /\ IsInjective(recent)
    BY DEF TypeOK
  <2>. DEFINE put == Touched(key[m])
  <2>2. ToSet(put) = ToSet(recent) \cup {key[m]}
    BY <2>1, TouchedKey
  <2>3. Over(put) => ToSet(Tail(put)) = ToSet(put) \ {Head(put)}
    BY <2>1, StoreAfterPut
  <2>4. CASE UNCHANGED <<recent, turns>>
    BY <2>4
  <2>5. CASE ~Over(put) /\ recent' = put /\ turns' = [k \in Key |-> IF k = key[m] THEN Kept(m) ELSE turns[k]]
    BY <2>2, <2>5
  <2>6. CASE /\ Over(put) /\ recent' = Tail(put)
             /\ turns' = [k \in Key |-> IF k \in {Head(put)} THEN {} ELSE IF k = key[m] THEN Kept(m) ELSE turns[k]]
    BY <2>2, <2>3, <2>6
  <2>7. \/ UNCHANGED <<recent, turns>>
        \/ ~Over(put) /\ recent' = put /\ turns' = [k \in Key |-> IF k = key[m] THEN Kept(m) ELSE turns[k]]
        \/ /\ Over(put) /\ recent' = Tail(put)
           /\ turns' = [k \in Key |-> IF k \in {Head(put)} THEN {} ELSE IF k = key[m] THEN Kept(m) ELSE turns[k]]
    BY <1>2 DEF Finish
  <2>. QED BY <2>4, <2>5, <2>6, <2>7
<1>3. ASSUME NEW m \in Message, Answers(m) \/ Enters(m) \/ Refuse(m) \/ Ask(m) PROVE UNCHANGED store
  BY <1>3 DEF Answers, Enters, Refuse, Ask
<1>4. ASSUME NEW m \in Message, Wake(m) \/ TimeOut(m) \/ Leave(m) PROVE UNCHANGED store
  BY <1>4 DEF Wake, TimeOut, Leave
<1>5. CASE UNCHANGED vars
  BY <1>5 DEF vars, store
<1>s. ASSUME NEW m \in Message, Send(m) PROVE UNCHANGED store
  BY <1>s DEF Send, store
<1>. QED BY <1>s, <1>a, <1>1, <1>2, <1>3, <1>4, <1>5 DEF Next, Handle

LEMMA TurnsStep ==
  ASSUME TypeOK, Alone, TurnsAreStored, RunsKnowTurns, [Next]_vars
  PROVE  RunsKnowTurns'
<1>. USE DEF RunsKnowTurns, Goes, AtWork
<1>1. ASSUME NEW m \in Message, Answers(m) PROVE RunsKnowTurns'
  BY <1>1 DEF Answers, store, TypeOK
<1>2. ASSUME NEW m \in Message, Enters(m) PROVE RunsKnowTurns'
  BY <1>2 DEF Enters, store, history, TypeOK
<1>3. ASSUME NEW m \in Message, Refuse(m) PROVE RunsKnowTurns'
  BY <1>3 DEF Refuse, store, history, TypeOK
<1>4. ASSUME NEW m \in Message, Admit(m) PROVE RunsKnowTurns'
  <2>1. key[m] \in Key /\ turns[key[m]] # {} => Stored(key[m])
    BY DEF TypeOK, TurnsAreStored
  <2>2. /\ key' = key /\ evicted \subseteq evicted' /\ crowded \subseteq crowded'
        /\ \A r \in Message \ {m} : at'[r] = at[r] /\ prior'[r] = prior[r]
        /\ \A k \in Key \ evicted' : turns'[k] = turns[k]
    BY <1>4 DEF Admit, TypeOK
  <2>3. key[m] \notin evicted' => turns[key[m]] \subseteq prior'[m]
    BY <1>4, <2>1 DEF Admit, TypeOK
  <2>. SUFFICES ASSUME NEW k \in Key \ (crowded' \cup evicted'), NEW r \in Message,
                       key[r] = k, at'[r] \in AtWork
                PROVE  turns'[k] \subseteq prior'[r]
    BY <2>2
  <2>. QED BY <2>2, <2>3
<1>5. ASSUME NEW m \in Message, Ask(m) PROVE RunsKnowTurns'
  BY <1>5 DEF Ask, store, history, TypeOK
<1>6. ASSUME NEW m \in Message, Wake(m) PROVE RunsKnowTurns'
  BY <1>6 DEF Wake, store, TypeOK
<1>7. ASSUME NEW m \in Message, TimeOut(m) PROVE RunsKnowTurns'
  BY <1>7 DEF TimeOut, store, history, TypeOK
<1>8. ASSUME NEW m \in Message, Leave(m) PROVE RunsKnowTurns'
  BY <1>8 DEF Leave, store, history, TypeOK
<1>9. ASSUME NEW m \in Message, Finish(m) PROVE RunsKnowTurns'
  <2>1. /\ key' = key /\ prior' = prior /\ crowded' = crowded /\ evicted \subseteq evicted'
        /\ at[m] \in AtWork /\ at' = [at EXCEPT ![m] = "ended"]
    BY <1>9 DEF Finish
  <2>2. \A k \in Key \ evicted' : k # key[m] => turns'[k] = turns[k]
    BY <1>9 DEF Finish
  <2>. SUFFICES ASSUME NEW k \in Key \ (crowded \cup evicted'), NEW r \in Message,
                       key[r] = k, at'[r] \in AtWork
                PROVE  turns'[k] \subseteq prior[r]
    BY <2>1
  <2>3. r # m /\ at[r] \in AtWork
    BY <2>1 DEF TypeOK
  <2>4. k # key[m]
    BY <2>1, <2>3 DEF Alone
  <2>. QED BY <2>1, <2>2, <2>3, <2>4
<1>10. CASE UNCHANGED vars
  BY <1>10 DEF vars, store, history
<1>s. ASSUME NEW m \in Message, Send(m) PROVE RunsKnowTurns'
  BY <1>s DEF Send, store, TypeOK
<1>. QED BY <1>s, <1>1, <1>2, <1>3, <1>4, <1>5, <1>6, <1>7, <1>8, <1>9, <1>10 DEF Next, Handle

(* What a step may do to the turns of a conversation.                      *)
LEMMA KeptStep ==
  ASSUME TypeOK, RunsKnowTurns, [Next]_vars, NEW k \in Key
  PROVE  turns[k] \subseteq turns'[k] \/ k \in crowded \/ k \in evicted'
<1>1. ASSUME NEW m \in Message, Admit(m) PROVE turns[k] \subseteq turns'[k] \/ k \in evicted'
  BY <1>1 DEF Admit, TypeOK
<1>2. ASSUME NEW m \in Message, Finish(m)
      PROVE  turns[k] \subseteq turns'[k] \/ k \in crowded \/ k \in evicted'
  <2>1. evicted \subseteq evicted' /\ (k \notin evicted' => turns'[k] \in {turns[k]} \cup (IF k = key[m] THEN {prior[m]} ELSE {}))
    BY <1>2 DEF Finish, Kept
  <2>2. k = key[m] /\ k \notin crowded \cup evicted => turns[k] \subseteq prior[m]
    BY <1>2 DEF RunsKnowTurns, Finish, Goes, AtWork
  <2>. QED BY <2>1, <2>2
<1>3. ASSUME NEW m \in Message, Answers(m) \/ Enters(m) \/ Refuse(m) \/ Ask(m) PROVE turns' = turns
  BY <1>3 DEF Answers, Enters, Refuse, Ask, store
<1>4. ASSUME NEW m \in Message, Wake(m) \/ TimeOut(m) \/ Leave(m) PROVE turns' = turns
  BY <1>4 DEF Wake, TimeOut, Leave, store
<1>5. CASE UNCHANGED vars
  BY <1>5 DEF vars, store
<1>s. ASSUME NEW m \in Message, Send(m) PROVE turns' = turns
  BY <1>s DEF Send, store
<1>. QED BY <1>s, <1>1, <1>2, <1>3, <1>4, <1>5 DEF Next, Handle

(* A stored turn is forgotten only with its conversation, or when two runs *)
(* of the conversation were at work on histories of their own.             *)
THEOREM StoredTurnsAreKept == Spec => TurnsAreKept
<1>. DEFINE I == Alone /\ TurnsAreStored /\ RunsKnowTurns
<1>1. Init => I
  BY DEF Init, Alone, TurnsAreStored, RunsKnowTurns, AtWork
<1>2. TypeOK /\ I /\ [Next]_vars => I'
  BY AloneStep, StoreStep, TurnsStep
<1>3. TypeOK /\ I /\ [Next]_vars =>
        [\A k \in Key : turns[k] \subseteq turns'[k] \/ k \in crowded \/ k \in evicted']_vars
  BY KeptStep
<1>. HIDE DEF I
<1>. QED BY <1>1, <1>2, <1>3, ConversationTypeCorrect, PTL DEF Spec, TurnsAreKept
=============================================================================
