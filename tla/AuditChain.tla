----------------------------- MODULE AuditChain -----------------------------
(***************************************************************************)
(* The signed audit log of audit/logger.py and the key file of             *)
(* audit/_hmac.py.                                                         *)
(*                                                                         *)
(* Several processes share one SQLite database and one key file.  Each has *)
(* an AuditLogger with one lock and one cached key, used by its threads.   *)
(* A thread loads the key outside the lock, then signs and inserts inside  *)
(* a BEGIN IMMEDIATE transaction, then may prune; processes crash, calls   *)
(* fail, and clocks are skewed, so records carry any earlier time.         *)
(*                                                                         *)
(* A hash is the tuple of what it was computed from, so it is as injective *)
(* as the HMAC it stands for.                                              *)
(***************************************************************************)
EXTENDS Integers, FiniteSets

CONSTANTS
  Logger,      \* processes, each with an AuditLogger
  Thread,      \* pairs of a process and a thread in it
  Key,         \* values secrets.token_bytes may draw
  NoKey,
  NoThread,
  Interval,    \* auto_prune_interval
  MaxRecords,  \* max_records
  Retention,   \* retention_days
  LegacyRows,  \* unsigned rows from before the migration
  MaxId,       \* bound: audit_log ids
  MaxNow       \* bound: days

ASSUME AuditAssumption ==
  /\ NoKey \notin Key
  /\ \A t \in Thread : t[1] \in Logger
  /\ NoThread \notin Thread
  /\ Interval \in Nat \ {0}
  /\ {MaxRecords, Retention, LegacyRows, MaxId, MaxNow} \subseteq Nat

NoHash == <<>>

VARIABLES
  rows,     \* the table audit_log
  nextId,   \* its AUTOINCREMENT counter
  keyFile,  \* content of audit_hmac.key
  cached,   \* _hmac_key of each logger
  holder,   \* thread inside each logger's _lock
  writer,   \* thread inside BEGIN IMMEDIATE
  pc,       \* where each thread is
  key,      \* the key a thread signs with
  tip,      \* prev_hash a thread has read
  count,    \* _insert_count of each logger, modulo the interval
  today     \* the cutoff's clock

database == <<rows, nextId, writer>>
keys == <<keyFile, cached, key>>
locals == <<pc, tip>>
vars == <<database, keys, locals, holder, count, today>>

(* compute_record_hash *)
Hash(k, prev, stamp) == <<k, prev, stamp>>

Signed(table) == {r \in table : r.hash # NoHash}

(* Mutant of TipHash: ORDER BY timestamp instead of id. *)
TipHashByTime(table) ==
  IF Signed(table) = {} THEN NoHash
  ELSE (CHOOSE r \in Signed(table) : \A q \in Signed(table) : q.stamp <= r.stamp).hash

(* _SELECT_CHAIN_TIP: the signed row with the greatest id. *)
IsTip(r, table) == r \in Signed(table) /\ \A q \in Signed(table) : q.id <= r.id

TipHash(table) ==
  IF Signed(table) = {} THEN NoHash ELSE (CHOOSE r \in table : IsTip(r, table)).hash

InLock == {"begin", "insert", "prune", "trim"}

TypeOK ==
  /\ \A r \in rows : r.id \in 1 .. nextId - 1 /\ r.stamp \in 0 .. today
  /\ nextId \in Nat \ {0}
  /\ keyFile \in Key \cup {NoKey}
  /\ cached \in [Logger -> Key \cup {NoKey}]
  /\ holder \in [Logger -> Thread \cup {NoThread}]
  /\ writer \in Thread \cup {NoThread}
  /\ pc \in [Thread -> {"idle", "read", "place", "lock"} \cup InLock]
  /\ key \in [Thread -> Key \cup {NoKey}]
  /\ count \in [Logger -> 0 .. Interval - 1]
  /\ today \in Nat

Init ==
  /\ rows = {[id |-> i, stamp |-> 0, prev |-> NoHash, hash |-> NoHash] : i \in 1 .. LegacyRows}
  /\ nextId = LegacyRows + 1
  /\ keyFile = NoKey
  /\ cached = [l \in Logger |-> NoKey]
  /\ holder = [l \in Logger |-> NoThread]
  /\ writer = NoThread
  /\ pc = [t \in Thread |-> "idle"]
  /\ key = [t \in Thread |-> NoKey]
  /\ tip = [t \in Thread |-> NoHash]
  /\ count = [l \in Logger |-> 0]
  /\ today = 0

Goto(t, from, to) == pc[t] = from /\ pc' = [pc EXCEPT ![t] = to]

-----------------------------------------------------------------------------
(* _get_hmac_key: the cached key, or load_or_create_hmac_key. *)
UseCachedKey(t) ==
  /\ cached[t[1]] # NoKey
  /\ Goto(t, "idle", "lock")
  /\ key' = [key EXCEPT ![t] = cached[t[1]]]
  /\ UNCHANGED <<database, keyFile, cached, holder, tip, count, today>>

LookForKey(t) ==
  /\ cached[t[1]] = NoKey
  /\ Goto(t, "idle", "read")
  /\ UNCHANGED <<database, keys, holder, tip, count, today>>

Adopt(t, k) ==
  /\ key' = [key EXCEPT ![t] = k]
  /\ cached' = [cached EXCEPT ![t[1]] = k]

ReadKeyFile(t) ==
  IF keyFile # NoKey
    THEN /\ Goto(t, "read", "lock")
         /\ Adopt(t, keyFile)
         /\ UNCHANGED <<database, keyFile, holder, tip, count, today>>
    ELSE /\ Goto(t, "read", "place")
         /\ UNCHANGED <<database, keys, holder, tip, count, today>>

(* Mutant of PlaceKey: os.replace, which overwrites, instead of os.link. *)
PlaceKeyOverwrites(t) ==
  /\ Goto(t, "place", "lock")
  /\ \E k \in Key : keyFile' = k /\ Adopt(t, k)
  /\ UNCHANGED <<database, holder, tip, count, today>>

(* _atomic_place_key: os.link has one winner, the losers read its key back. *)
PlaceKey(t) ==
  /\ Goto(t, "place", "lock")
  /\ \E k \in Key : keyFile' = IF keyFile = NoKey THEN k ELSE keyFile
  /\ Adopt(t, keyFile')
  /\ UNCHANGED <<database, holder, tip, count, today>>

-----------------------------------------------------------------------------
(* _log_signed_locked. *)
Lock(t) ==
  /\ holder[t[1]] = NoThread
  /\ Goto(t, "lock", "begin")
  /\ holder' = [holder EXCEPT ![t[1]] = t]
  /\ UNCHANGED <<database, keys, tip, count, today>>

(* Mutant of Begin: a deferred BEGIN takes no write lock before the read. *)
BeginDeferred(t) ==
  /\ Goto(t, "begin", "insert")
  /\ tip' = [tip EXCEPT ![t] = TipHash(rows)]
  /\ UNCHANGED <<database, keys, holder, count, today>>

(* BEGIN IMMEDIATE, then the read of the chain tip. *)
Begin(t) ==
  /\ writer = NoThread
  /\ Goto(t, "begin", "insert")
  /\ writer' = t
  /\ tip' = [tip EXCEPT ![t] = TipHash(rows)]
  /\ UNCHANGED <<rows, nextId, keys, holder, count, today>>

(* The call ends: its thread leaves the lock and forgets its locals. *)
Leave(t) ==
  /\ pc' = [pc EXCEPT ![t] = "idle"]
  /\ holder' = [holder EXCEPT ![t[1]] = NoThread]
  /\ key' = [key EXCEPT ![t] = NoKey]
  /\ tip' = [tip EXCEPT ![t] = NoHash]

(* Every Interval-th insert of a logger goes on to prune. *)
CountInsert(t) ==
  LET l == t[1] IN
    IF count[l] + 1 = Interval
      THEN /\ pc' = [pc EXCEPT ![t] = "prune"]
           /\ count' = [count EXCEPT ![l] = 0]
           /\ UNCHANGED <<key, tip>>
      ELSE /\ count' = [count EXCEPT ![l] = @ + 1]
           /\ pc' = [pc EXCEPT ![t] = "idle"]
           /\ key' = [key EXCEPT ![t] = NoKey]
           /\ tip' = [tip EXCEPT ![t] = NoHash]

NewRow(t, stamp) ==
  [id |-> nextId, stamp |-> stamp, prev |-> tip[t], hash |-> Hash(key[t], tip[t], stamp)]

(* The insert and its commit. *)
Insert(t) ==
  /\ pc[t] = "insert"
  /\ nextId <= MaxId
  /\ \E stamp \in 0 .. today : rows' = rows \cup {NewRow(t, stamp)}
  /\ nextId' = nextId + 1
  /\ writer' = NoThread
  /\ CountInsert(t)
  /\ holder' = [holder EXCEPT ![t[1]] = IF pc'[t] = "prune" THEN t ELSE NoThread]
  /\ UNCHANGED <<keyFile, cached, today>>

(* BEGIN IMMEDIATE times out behind another process, or the insert raises   *)
(* and is rolled back; log swallows the exception and the record is lost.   *)
LogFails(t) ==
  /\ pc[t] \in {"begin", "insert"}
  /\ writer' = IF writer = t THEN NoThread ELSE writer
  /\ Leave(t)
  /\ UNCHANGED <<rows, nextId, keyFile, cached, count, today>>

(* An event of another table through _execute_insert_locked: it is unsigned *)
(* and counts towards the next prune.                                       *)
LogOtherEvent(t) ==
  /\ pc[t] = "idle"
  /\ holder[t[1]] = NoThread
  /\ writer = NoThread
  /\ CountInsert(t)
  /\ holder' = [holder EXCEPT ![t[1]] = IF pc'[t] = "prune" THEN t ELSE NoThread]
  /\ UNCHANGED <<database, keyFile, cached, today>>

-----------------------------------------------------------------------------
(* prune(), from the command line. *)
StartPrune(t) ==
  /\ holder[t[1]] = NoThread
  /\ Goto(t, "idle", "prune")
  /\ holder' = [holder EXCEPT ![t[1]] = t]
  /\ UNCHANGED <<database, keys, tip, count, today>>

Expired == {r \in rows : r.stamp < today - Retention}

(* _prune_locked: two autocommitted deletes, between which another process  *)
(* may write.                                                               *)
PruneExpired(t) ==
  /\ writer = NoThread
  /\ Goto(t, "prune", "trim")
  /\ rows' = rows \ Expired
  /\ UNCHANGED <<nextId, writer, keys, holder, tip, count, today>>

Newest(r) == Cardinality({q \in rows : q.id > r.id}) < MaxRecords

PruneExcess(t) ==
  /\ writer = NoThread
  /\ pc[t] = "trim"
  /\ rows' = {r \in rows : Newest(r)}
  /\ Leave(t)
  /\ UNCHANGED <<nextId, writer, keyFile, cached, count, today>>

PruneFails(t) ==
  /\ pc[t] \in {"prune", "trim"}
  /\ Leave(t)
  /\ UNCHANGED <<database, keyFile, cached, count, today>>

-----------------------------------------------------------------------------
(* A process dies: SQLite rolls its transaction back, and the process that  *)
(* replaces it has a new AuditLogger.                                       *)
Crash(l) ==
  /\ \E t \in Thread : t[1] = l /\ (pc[t] # "idle" \/ cached[l] # NoKey \/ count[l] # 0)
  /\ pc' = [t \in Thread |-> IF t[1] = l THEN "idle" ELSE pc[t]]
  /\ key' = [t \in Thread |-> IF t[1] = l THEN NoKey ELSE key[t]]
  /\ tip' = [t \in Thread |-> IF t[1] = l THEN NoHash ELSE tip[t]]
  /\ writer' = IF writer # NoThread /\ writer[1] = l THEN NoThread ELSE writer
  /\ holder' = [holder EXCEPT ![l] = NoThread]
  /\ cached' = [cached EXCEPT ![l] = NoKey]
  /\ count' = [count EXCEPT ![l] = 0]
  /\ UNCHANGED <<rows, nextId, keyFile, today>>

DayPasses ==
  /\ today < MaxNow
  /\ today' = today + 1
  /\ UNCHANGED <<database, keys, holder, locals, count>>

-----------------------------------------------------------------------------
LogStep(t) ==
  \/ UseCachedKey(t) \/ LookForKey(t) \/ ReadKeyFile(t) \/ PlaceKey(t)
  \/ Lock(t) \/ Begin(t) \/ Insert(t) \/ LogFails(t) \/ LogOtherEvent(t)

PruneStep(t) == StartPrune(t) \/ PruneExpired(t) \/ PruneExcess(t)

Next ==
  \/ \E t \in Thread : LogStep(t) \/ PruneStep(t) \/ PruneFails(t)
  \/ \E l \in Logger : Crash(l)
  \/ DayPasses

Spec == Init /\ [][Next]_vars

-----------------------------------------------------------------------------
(* Properties. *)

(* What verify_chain promises about a table, in one formula: legacy rows     *)
(* come first; every signed row hashes to what it stores; two rows with      *)
(* consecutive ids are linked.                                               *)
ChainOk(table, k) ==
  /\ \A r \in Signed(table), q \in table \ Signed(table) : q.id < r.id
  /\ \A r \in Signed(table) : r.hash = Hash(k, r.prev, r.stamp)
  /\ \A p, r \in Signed(table) : r.id = p.id + 1 => r.prev = p.hash

(* No interleaving of writers, prunes, failures and crashes of any number of *)
(* processes breaks the chain: verification succeeds on what they leave.     *)
ChainVerifies == keyFile # NoKey => ChainOk(rows, keyFile)

(* The processes race for the key file and still all sign with its key.      *)
KeysAgree ==
  /\ \A l \in Logger : cached[l] \in {NoKey, keyFile}
  /\ \A t \in Thread : key[t] \in {NoKey, keyFile}
  /\ \A r \in Signed(rows) : r.hash[1] = keyFile /\ keyFile # NoKey

(* The chain never forks: of the rows in the table no two name the same      *)
(* predecessor, whatever was pruned between them.                            *)
NoFork == \A p, r \in Signed(rows) : p.prev = r.prev => p = r

=============================================================================
