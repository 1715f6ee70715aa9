-------------------------- MODULE AuditChainProofs --------------------------
(***************************************************************************)
(* For any number of processes and threads, any table size and any pruning *)
(* configuration: the chain verifies as long as the key file stays, no two *)
(* rows have the same predecessor, the loop of verify_chain decides        *)
(* ChainOk, and damage to the table is reported.                           *)
(***************************************************************************)
EXTENDS AuditVerify, WellFoundedInduction, TLAPS

(* Rows of the table, without what the next insert needs. *)
RowIds ==
  /\ nextId \in Nat \ {0}
  /\ \A r \in rows : r.id \in 1 .. nextId - 1
  /\ \A p, r \in rows : p.id = r.id => p = r

Locals ==
  /\ writer \in Thread \cup {NoThread}
  /\ pc \in [Thread -> {"idle", "read", "place", "lock"} \cup InLock]
  /\ key \in [Thread -> Key \cup {NoKey}]
  /\ tip = [t \in Thread |-> tip[t]]
  /\ cached \in [Logger -> Key \cup {NoKey}]
  /\ keyFile \in Key \cup {NoKey}

(* A thread past the key's load has a key; the one thread in the transaction *)
(* holds SQLite's write lock, so what it has read is still the tip.          *)
Signing ==
  \A t \in Thread :
    /\ pc[t] \in {"lock", "begin", "insert"} => key[t] # NoKey
    /\ pc[t] = "insert" => writer = t /\ tip[t] = TipHash(rows)

Linked ==
  /\ \A r \in Signed(rows), q \in rows \ Signed(rows) : q.id < r.id
  /\ \A r \in Signed(rows) : r.hash = Hash(keyFile, r.prev, r.stamp)
  /\ \A p, r \in Signed(rows) : r.id = p.id + 1 => r.prev = p.hash

(* The inductive invariant: the table is linked, every key is the file's,    *)
(* and the thread about to extend the chain knows the tip.                   *)
ChainInv == RowIds /\ Locals /\ Signing /\ Linked /\ KeysAgree

LEMMA HashSigned == \A k, prev, stamp : Hash(k, prev, stamp) # NoHash
  BY DEF Hash, NoHash

LEMMA HashKey == \A k, prev, stamp : Hash(k, prev, stamp)[1] = k
  BY DEF Hash

LEMMA ThreadParts == \A t \in Thread : t[1] \in Logger /\ t # NoThread
  BY AuditAssumption

(* The last row, if signed, is the tip. *)
LEMMA LastIsTip ==
  ASSUME RowIds, NEW p \in Signed(rows), p.id = nextId - 1
  PROVE  TipHash(rows) = p.hash
<1>1. IsTip(p, rows)
  BY DEF RowIds, IsTip, Signed
<1>2. ASSUME NEW q \in rows, IsTip(q, rows) PROVE q = p
  <2>1. p.id <= q.id /\ q.id <= p.id
    BY <1>1, <1>2 DEF IsTip
  <2>2. p.id = q.id
    BY <2>1 DEF RowIds, Signed
  <2>. QED BY <2>2 DEF RowIds, Signed
<1>. QED BY <1>1, <1>2 DEF TipHash, Signed

(* Deleting rows leaves a linked table linked. *)
LEMMA DeletingKeeps ==
  ASSUME RowIds, Linked, KeysAgree, rows' \subseteq rows,
         UNCHANGED <<nextId, keyFile, cached>>,
         \A t \in Thread : key'[t] \in {NoKey, key[t]}
  PROVE  RowIds' /\ Linked' /\ KeysAgree'
<1>1. Signed(rows') = rows' \cap Signed(rows)
  BY DEF Signed
<1>2. RowIds'
  BY DEF RowIds
<1>3. Linked'
  BY <1>1 DEF Linked
<1>4. KeysAgree'
  BY <1>1 DEF KeysAgree
<1>. QED BY <1>2, <1>3, <1>4

LEMMA InitInv == Init => ChainInv
<1>. SUFFICES ASSUME Init PROVE ChainInv
  OBVIOUS
<1>1. Signed(rows) = {}
  BY DEF Init, Signed
<1>2. RowIds
  BY AuditAssumption DEF Init, RowIds
<1>3. Locals
  BY DEF Init, Locals
<1>. QED BY <1>1, <1>2, <1>3 DEF Init, ChainInv, Signing, Linked, KeysAgree

(* A step that leaves the table alone and moves threads without letting one *)
(* into the transaction.                                                    *)
LEMMA QuietStep ==
  ASSUME ChainInv, Locals', UNCHANGED <<rows, nextId, keyFile>>,
         \A l \in Logger : cached'[l] \in {NoKey, keyFile},
         \A t \in Thread : key'[t] \in {NoKey, keyFile},
         \A t \in Thread : pc'[t] \in {"lock", "begin", "insert"} => key'[t] # NoKey,
         \A t \in Thread : pc'[t] = "insert" =>
            pc[t] = "insert" /\ tip'[t] = tip[t] /\ writer' = writer
  PROVE  ChainInv'
<1>1. RowIds' /\ Linked' /\ KeysAgree'
  BY DEF ChainInv, RowIds, Linked, KeysAgree
<1>2. Signing'
  BY DEF ChainInv, Signing
<1>. QED BY <1>1, <1>2 DEF ChainInv

(* A step that deletes rows while no transaction is open. *)
LEMMA PruneStepKeeps ==
  ASSUME ChainInv, Locals', writer = NoThread, rows' \subseteq rows,
         UNCHANGED <<nextId, keyFile, cached>>,
         \A t \in Thread : key'[t] \in {NoKey, key[t]},
         \A t \in Thread : pc'[t] \in {"lock", "begin", "insert"} =>
            pc[t] = pc'[t] /\ key'[t] = key[t]
  PROVE  ChainInv'
<1>1. RowIds' /\ Linked' /\ KeysAgree'
  BY DeletingKeeps DEF ChainInv
<1>2. \A t \in Thread : pc'[t] # "insert"
  BY ThreadParts DEF ChainInv, Signing
<1>3. Signing'
  BY <1>2 DEF ChainInv, Signing
<1>. QED BY <1>1, <1>3 DEF ChainInv

LEMMA LogStepInv ==
  ASSUME ChainInv, NEW t \in Thread, LogStep(t), ~Insert(t)
  PROVE  ChainInv'
<1>. USE ThreadParts, AuditAssumption DEF database, keys, Goto, InLock
<1>a. Locals /\ Signing /\ KeysAgree
  BY DEF ChainInv
<1>1. CASE UseCachedKey(t)
  <2>1. Locals'
    BY <1>1, <1>a DEF UseCachedKey, Locals
  <2>. QED BY <1>1, <1>a, <2>1, QuietStep DEF UseCachedKey, Locals, Signing, KeysAgree
<1>2. CASE LookForKey(t)
  <2>1. Locals'
    BY <1>2, <1>a DEF LookForKey, Locals
  <2>. QED BY <1>2, <1>a, <2>1, QuietStep DEF LookForKey, Locals, Signing, KeysAgree
<1>3. CASE ReadKeyFile(t)
  <2>1. Locals'
    BY <1>3, <1>a DEF ReadKeyFile, Adopt, Locals
  <2>. QED BY <1>3, <1>a, <2>1, QuietStep DEF ReadKeyFile, Adopt, Locals, Signing, KeysAgree
<1>4. CASE PlaceKey(t)
  <2>1. Locals' /\ keyFile' \in Key
    BY <1>4, <1>a DEF PlaceKey, Adopt, Locals
  <2>2. CASE keyFile = NoKey
    <3>1. Signed(rows) = {}
      BY <1>a, <2>2 DEF KeysAgree
    <3>2. Linked' /\ RowIds'
      BY <1>4, <3>1 DEF ChainInv, Linked, RowIds, PlaceKey
    <3>3. KeysAgree'
      BY <1>4, <1>a, <2>1, <2>2, <3>1 DEF KeysAgree, PlaceKey, Adopt, Locals
    <3>4. Signing'
      BY <1>4, <1>a, <2>1 DEF Signing, PlaceKey, Adopt, Locals
    <3>. QED BY <2>1, <3>2, <3>3, <3>4 DEF ChainInv
  <2>3. CASE keyFile # NoKey
    BY <1>4, <1>a, <2>1, <2>3, QuietStep DEF PlaceKey, Adopt, Locals, Signing, KeysAgree
  <2>. QED BY <2>2, <2>3
<1>5. CASE Lock(t)
  <2>1. Locals'
    BY <1>5, <1>a DEF Lock, Locals
  <2>. QED BY <1>5, <1>a, <2>1, QuietStep DEF Lock, Locals, Signing, KeysAgree
<1>6. CASE Begin(t)
  <2>1. Locals'
    BY <1>6, <1>a DEF Begin, Locals
  <2>2. RowIds' /\ Linked' /\ KeysAgree'
    BY <1>6 DEF ChainInv, RowIds, Linked, KeysAgree, Begin
  <2>3. \A u \in Thread : pc[u] # "insert"
    BY <1>6, <1>a DEF Signing, Begin
  <2>4. Signing'
    BY <1>6, <1>a, <2>3 DEF Signing, Begin, Locals
  <2>. QED BY <2>1, <2>2, <2>4 DEF ChainInv
<1>7. CASE LogFails(t)
  <2>1. Locals'
    BY <1>7, <1>a DEF LogFails, Leave, Locals
  <2>2. \A u \in Thread : pc'[u] = "insert" => u # t /\ pc[u] = "insert" /\ writer = u
    BY <1>7, <1>a DEF LogFails, Leave, Locals, Signing
  <2>. QED BY <1>7, <1>a, <2>1, <2>2, QuietStep DEF LogFails, Leave, Locals, Signing, KeysAgree
<1>8. CASE LogOtherEvent(t)
  <2>1. Locals'
    BY <1>8, <1>a DEF LogOtherEvent, CountInsert, Locals
  <2>. QED
    BY <1>8, <1>a, <2>1, QuietStep DEF LogOtherEvent, CountInsert, Locals, Signing, KeysAgree
<1>. QED BY <1>1, <1>2, <1>3, <1>4, <1>5, <1>6, <1>7, <1>8 DEF LogStep

(* The insert extends the chain at its tip. *)
LEMMA InsertInv ==
  ASSUME ChainInv, NEW t \in Thread, Insert(t)
  PROVE  ChainInv'
<1>. USE ThreadParts, AuditAssumption
<1>a. RowIds /\ Locals /\ Signing /\ Linked /\ KeysAgree
  BY DEF ChainInv
<1>1. PICK stamp \in 0 .. today : rows' = rows \cup {NewRow(t, stamp)}
  BY DEF Insert
<1>. DEFINE new == NewRow(t, stamp)
<1>2. /\ new.id = nextId
      /\ new.prev = tip[t]
      /\ new.hash = Hash(key[t], new.prev, new.stamp)
  BY DEF NewRow
<1>3. key[t] = keyFile /\ keyFile # NoKey /\ tip[t] = TipHash(rows) /\ writer = t
  BY <1>a DEF Insert, Signing, KeysAgree
<1>4. nextId' = nextId + 1 /\ keyFile' = keyFile /\ cached' = cached /\ writer' = NoThread
  BY DEF Insert
<1>. HIDE DEF new
<1>5. Signed(rows') = Signed(rows) \cup {new}
  BY <1>1, <1>2, HashSigned DEF Signed, new
<1>6. RowIds'
  BY <1>a, <1>1, <1>2, <1>4 DEF RowIds, new
<1>7. Linked'
  <2>1. \A r \in Signed(rows'), q \in rows' \ Signed(rows') : q.id < r.id
    BY <1>a, <1>1, <1>2, <1>5 DEF Linked, RowIds, new, Signed
  <2>2. \A r \in Signed(rows') : r.hash = Hash(keyFile', r.prev, r.stamp)
    BY <1>a, <1>2, <1>3, <1>4, <1>5 DEF Linked
  <2>3. ASSUME NEW p \in Signed(rows'), NEW r \in Signed(rows'), r.id = p.id + 1
        PROVE  r.prev = p.hash
    <3>1. CASE p \in Signed(rows) /\ r \in Signed(rows)
      BY <1>a, <2>3, <3>1 DEF Linked
    <3>2. CASE p \in Signed(rows) /\ r = new
      <4>1. p.id = nextId - 1
        BY <1>a, <1>2, <2>3, <3>2 DEF RowIds, Signed
      <4>. QED BY <1>a, <1>2, <1>3, <3>2, <4>1, LastIsTip
    <3>3. CASE p = new
      <4>1. r.id <= nextId
        BY <1>a, <1>2, <1>5 DEF RowIds, Signed
      <4>. QED BY <1>a, <1>2, <2>3, <3>3, <4>1 DEF RowIds
    <3>. QED BY <1>5, <3>1, <3>2, <3>3
  <2>. QED BY <2>1, <2>2, <2>3 DEF Linked
<1>8. key' = [key EXCEPT ![t] = NoKey] \/ key' = key
  BY DEF Insert, CountInsert
<1>9. KeysAgree'
  <2>1. \A r \in Signed(rows') : r.hash[1] = keyFile
    BY <1>a, <1>2, <1>3, <1>5, HashKey DEF KeysAgree
  <2>. QED BY <1>a, <1>3, <1>4, <1>8, <2>1 DEF KeysAgree, Locals
<1>10. Locals'
  BY <1>a DEF Insert, CountInsert, Locals, InLock
<1>11. \A u \in Thread : u # t => pc'[u] = pc[u] /\ key'[u] = key[u] /\ pc[u] # "insert"
  BY <1>a, <1>3 DEF Insert, CountInsert, Locals, Signing
<1>12. pc'[t] \in {"idle", "prune"}
  BY <1>a DEF Insert, CountInsert, Locals
<1>13. Signing'
  BY <1>a, <1>11, <1>12 DEF Signing
<1>. QED BY <1>6, <1>7, <1>9, <1>10, <1>13 DEF ChainInv

LEMMA PruneInv ==
  ASSUME ChainInv, NEW t \in Thread, PruneStep(t) \/ PruneFails(t)
  PROVE  ChainInv'
<1>. USE ThreadParts, AuditAssumption DEF database, keys, Goto, InLock, Leave
<1>a. Locals /\ Signing /\ KeysAgree
  BY DEF ChainInv
<1>1. CASE StartPrune(t)
  <2>1. Locals'
    BY <1>1, <1>a DEF StartPrune, Locals
  <2>. QED BY <1>1, <1>a, <2>1, QuietStep DEF StartPrune, Locals, Signing, KeysAgree
<1>2. CASE PruneExpired(t)
  <2>1. Locals'
    BY <1>2, <1>a DEF PruneExpired, Locals
  <2>. QED BY <1>2, <1>a, <2>1, PruneStepKeeps DEF PruneExpired, Locals
<1>3. CASE PruneExcess(t)
  <2>1. Locals'
    BY <1>3, <1>a DEF PruneExcess, Locals
  <2>. QED BY <1>3, <1>a, <2>1, PruneStepKeeps DEF PruneExcess, Locals
<1>4. CASE PruneFails(t)
  <2>1. Locals'
    BY <1>4, <1>a DEF PruneFails, Locals
  <2>. QED BY <1>4, <1>a, <2>1, QuietStep DEF PruneFails, Locals, Signing, KeysAgree
<1>. QED BY <1>1, <1>2, <1>3, <1>4 DEF PruneStep

LEMMA CrashInv ==
  ASSUME ChainInv, NEW l \in Logger, Crash(l)
  PROVE  ChainInv'
<1>. USE ThreadParts, AuditAssumption
<1>a. Locals /\ Signing /\ KeysAgree
  BY DEF ChainInv
<1>1. Locals'
  BY <1>a DEF Crash, Locals
<1>2. \A t \in Thread : pc'[t] = "insert" =>
        pc[t] = "insert" /\ tip'[t] = tip[t] /\ writer' = writer
  BY <1>a DEF Crash, Locals, Signing
<1>. QED BY <1>a, <1>1, <1>2, QuietStep DEF Crash, Locals, Signing, KeysAgree

LEMMA NextInv == ChainInv /\ [Next]_vars => ChainInv'
<1>. SUFFICES ASSUME ChainInv, [Next]_vars PROVE ChainInv'
  OBVIOUS
<1>1. CASE DayPasses \/ UNCHANGED vars
  <2>1. UNCHANGED <<rows, nextId, keyFile, cached, key, tip, pc, writer>>
    BY <1>1 DEF DayPasses, vars, database, keys, locals
  <2>2. Locals'
    BY <2>1 DEF ChainInv, Locals
  <2>. QED BY <2>1, <2>2, QuietStep DEF ChainInv, Signing, KeysAgree
<1>. QED BY <1>1, LogStepInv, InsertInv, PruneInv, CrashInv DEF Next

(***************************************************************************)
(* No fork.  A hash nests the hashes of all its predecessors, also of those *)
(* long pruned.  A rank counts them: it goes up by one from each hash to   *)
(* the next, on a set of hashes that holds the table's.  Two rows that name *)
(* the same predecessor have the same rank, but ranks go up with the ids.  *)
(***************************************************************************)

IsRank(d) ==
  /\ d \in [DOMAIN d -> Nat]
  /\ NoHash \in DOMAIN d
  /\ \A x \in DOMAIN d \ {NoHash} : x[2] \in DOMAIN d /\ d[x] = d[x[2]] + 1

GoesUp(d, table) ==
  /\ \A r \in Signed(table) : r.hash \in DOMAIN d
  /\ \A p, r \in Signed(table) : p.id < r.id => d[p.hash] < d[r.hash]

Ranked == \E d : IsRank(d) /\ GoesUp(d, rows)

(* The naturals are well-founded. *)
LEMMA LeastNat ==
  ASSUME NEW S, S \subseteq Nat, S # {}
  PROVE  \E n \in S : \A m \in S : n <= m
<1>1. PICK n \in S : \A m \in S : ~(<<m, n>> \in OpToRel(<, Nat))
  BY NatLessThanWellFounded, WFMin
<1>2. \A m \in S : ~(m < n)
  BY <1>1 DEF OpToRel
<1>. QED BY <1>2

LEMMA HashParts ==
  \A k, prev, stamp : Hash(k, prev, stamp)[2] = prev
  BY DEF Hash

LEMMA GreatestId ==
  ASSUME RowIds, NEW some, some \subseteq rows, some # {}
  PROVE  \E r \in some : \A q \in some : q.id <= r.id
<1>. DEFINE S == {nextId - r.id : r \in some}
<1>1. \A r \in some : r.id \in Nat /\ nextId - r.id \in Nat
  BY DEF RowIds
<1>2. PICK n \in S : \A m \in S : n <= m
  <2>1. S \subseteq Nat /\ S # {}
    BY <1>1
  <2>. HIDE DEF S
  <2>. QED BY <2>1, LeastNat
<1>3. PICK r \in some : n = nextId - r.id
  BY <1>2
<1>4. ASSUME NEW q \in some PROVE q.id <= r.id
  <2>1. nextId - r.id <= nextId - q.id
    BY <1>2, <1>3
  <2>. QED BY <1>1, <2>1 DEF RowIds
<1>. QED BY <1>4

(* The tip is the hash of the signed row with the greatest id. *)
LEMMA TipIsLast ==
  ASSUME RowIds, Signed(rows) # {}
  PROVE  \E r \in Signed(rows) : /\ TipHash(rows) = r.hash
                                 /\ \A q \in Signed(rows) : q.id <= r.id
<1>1. PICK r \in Signed(rows) : \A q \in Signed(rows) : q.id <= r.id
  <2>1. Signed(rows) \subseteq rows
    BY DEF Signed
  <2>. QED BY <2>1, GreatestId
<1>2. r \in rows /\ IsTip(r, rows)
  BY <1>1 DEF IsTip, Signed
<1>3. PICK q \in rows : IsTip(q, rows) /\ TipHash(rows) = q.hash
  BY <1>2 DEF TipHash
<1>. QED BY <1>3 DEF IsTip

LEMMA InitRanked == Init => Ranked
<1>. SUFFICES ASSUME Init PROVE Ranked
  OBVIOUS
<1>. DEFINE d == [x \in {NoHash} |-> 0]
<1>1. IsRank(d)
  BY DEF IsRank
<1>2. Signed(rows) = {}
  BY DEF Init, Signed
<1>3. GoesUp(d, rows)
  BY <1>2 DEF GoesUp
<1>. QED BY <1>1, <1>3 DEF Ranked

(* The rank of a new hash is one more than that of the tip it is made from,  *)
(* whether some row had that hash before or not.                             *)
LEMMA RankExtends ==
  ASSUME NEW d, IsRank(d), NEW k, NEW prev \in DOMAIN d, NEW stamp
  PROVE  \E e : /\ IsRank(e)
                /\ DOMAIN d \subseteq DOMAIN e
                /\ \A x \in DOMAIN d : e[x] = d[x]
                /\ Hash(k, prev, stamp) \in DOMAIN e
                /\ e[Hash(k, prev, stamp)] = d[prev] + 1
<1>. DEFINE h == Hash(k, prev, stamp)
<1>1. h # NoHash /\ h[2] = prev
  BY HashSigned, HashParts
<1>. HIDE DEF h
<1>2. CASE h \in DOMAIN d
  BY <1>1, <1>2 DEF IsRank, h
<1>3. CASE h \notin DOMAIN d
  <2>. DEFINE e == [x \in DOMAIN d \cup {h} |-> IF x = h THEN d[prev] + 1 ELSE d[x]]
  <2>1. DOMAIN e = DOMAIN d \cup {h}
    OBVIOUS
  <2>2. \A x \in DOMAIN d : e[x] = d[x]
    BY <1>3
  <2>3. e[h] = d[prev] + 1
    OBVIOUS
  <2>. HIDE DEF e
  <2>4. e \in [DOMAIN e -> Nat]
    BY <2>1, <2>2, <2>3 DEF IsRank, e
  <2>5. \A x \in DOMAIN e \ {NoHash} : x[2] \in DOMAIN e /\ e[x] = e[x[2]] + 1
    BY <1>1, <2>1, <2>2, <2>3 DEF IsRank
  <2>6. IsRank(e)
    BY <2>1, <2>4, <2>5 DEF IsRank
  <2>. QED BY <2>1, <2>2, <2>3, <2>6 DEF h
<1>. QED BY <1>2, <1>3

LEMMA InsertRanked ==
  ASSUME ChainInv, Ranked, NEW t \in Thread, Insert(t)
  PROVE  Ranked'
<1>a. RowIds /\ Signing /\ Linked
  BY DEF ChainInv
<1>1. PICK stamp \in 0 .. today : rows' = rows \cup {NewRow(t, stamp)}
  BY DEF Insert
<1>2. PICK d : IsRank(d) /\ GoesUp(d, rows)
  BY DEF Ranked
<1>. DEFINE new == NewRow(t, stamp)
<1>3. new.id = nextId /\ new.hash = Hash(key[t], tip[t], stamp) /\ new.hash # NoHash
  BY HashSigned DEF NewRow
<1>. HIDE DEF new
<1>4. Signed(rows') = Signed(rows) \cup {new}
  BY <1>1, <1>3 DEF Signed, new
<1>5. /\ tip[t] \in DOMAIN d
      /\ \A r \in Signed(rows) : d[r.hash] \in Nat /\ d[tip[t]] \in Nat /\ d[r.hash] <= d[tip[t]]
  <2>1. tip[t] = TipHash(rows)
    BY <1>a DEF Insert, Signing
  <2>2. CASE Signed(rows) = {}
    BY <1>2, <2>1, <2>2 DEF TipHash, IsRank
  <2>3. CASE Signed(rows) # {}
    <3>1. PICK last \in Signed(rows) : /\ TipHash(rows) = last.hash
                                       /\ \A q \in Signed(rows) : q.id <= last.id
      BY <1>a, <2>3, TipIsLast
    <3>2. last.hash \in DOMAIN d /\ d[last.hash] \in Nat
      BY <1>2 DEF GoesUp, IsRank
    <3>3. ASSUME NEW r \in Signed(rows) PROVE d[r.hash] \in Nat /\ d[r.hash] <= d[last.hash]
      <4>1. r.id \in Int /\ last.id \in Int /\ r.id <= last.id
        BY <1>a, <3>1 DEF RowIds, Signed
      <4>2. d[r.hash] \in Nat
        BY <1>2 DEF GoesUp, IsRank
      <4>3. CASE r.id = last.id
        BY <1>a, <3>2, <4>3 DEF RowIds, Signed
      <4>4. CASE r.id < last.id
        BY <1>2, <3>2, <4>2, <4>4 DEF GoesUp
      <4>. QED BY <4>1, <4>2, <4>3, <4>4
    <3>. QED BY <2>1, <3>1, <3>2, <3>3
  <2>. QED BY <2>2, <2>3
<1>6. PICK e : /\ IsRank(e)
               /\ \A x \in DOMAIN d : x \in DOMAIN e /\ e[x] = d[x]
               /\ new.hash \in DOMAIN e
               /\ e[new.hash] = d[tip[t]] + 1
  BY <1>2, <1>3, <1>5, RankExtends
<1>7. GoesUp(e, rows')
  <2>1. \A r \in Signed(rows) : r.hash \in DOMAIN e /\ e[r.hash] = d[r.hash] /\ r.id \in Int /\ r.id < nextId
    BY <1>a, <1>2, <1>6 DEF GoesUp, RowIds, Signed
  <2>2. \A r \in Signed(rows') : r.hash \in DOMAIN e
    BY <1>4, <1>6, <2>1
  <2>3. ASSUME NEW p \in Signed(rows'), NEW r \in Signed(rows'), p.id < r.id
        PROVE  e[p.hash] < e[r.hash]
    <3>1. CASE p \in Signed(rows) /\ r \in Signed(rows)
      BY <1>2, <2>1, <2>3, <3>1 DEF GoesUp
    <3>2. CASE p \in Signed(rows) /\ r = new
      BY <1>5, <1>6, <2>1, <3>2
    <3>3. CASE p = new
      <4>1. r.id <= nextId
        BY <1>a, <1>3, <1>4, <2>1 DEF RowIds
      <4>. QED BY <1>a, <1>3, <1>4, <2>1, <2>3, <3>3, <4>1 DEF RowIds
    <3>. QED BY <1>4, <3>1, <3>2, <3>3
  <2>. QED BY <2>2, <2>3 DEF GoesUp
<1>. QED BY <1>6, <1>7 DEF Ranked

(* Nothing but an insert adds to the table. *)
LEMMA OnlyInsertAdds ==
  [Next]_vars => rows' \subseteq rows \/ \E t \in Thread : Insert(t)
<1>. SUFFICES ASSUME Next PROVE rows' \subseteq rows \/ \E t \in Thread : Insert(t)
  BY DEF vars, database
<1>. USE DEF database, Goto
<1>1. CASE DayPasses \/ \E l \in Logger : Crash(l)
  BY <1>1 DEF DayPasses, Crash
<1>2. ASSUME NEW t \in Thread, LogStep(t), ~Insert(t) PROVE rows' = rows
  BY <1>2 DEF LogStep, UseCachedKey, LookForKey, ReadKeyFile, PlaceKey, Lock, Begin, LogFails, LogOtherEvent
<1>3. ASSUME NEW t \in Thread, PruneStep(t) \/ PruneFails(t) PROVE rows' \subseteq rows
  BY <1>3 DEF PruneStep, PruneFails, StartPrune, PruneExpired, PruneExcess
<1>. QED BY <1>1, <1>2, <1>3 DEF Next

LEMMA NextRanked == ChainInv /\ Ranked /\ [Next]_vars => Ranked'
<1>. SUFFICES ASSUME ChainInv, Ranked, [Next]_vars PROVE Ranked'
  OBVIOUS
<1>1. CASE rows' \subseteq rows
  <2>1. Signed(rows') \subseteq Signed(rows)
    BY <1>1 DEF Signed
  <2>2. PICK d : IsRank(d) /\ GoesUp(d, rows)
    BY DEF Ranked
  <2>3. GoesUp(d, rows')
    BY <2>1, <2>2 DEF GoesUp
  <2>. QED BY <2>2, <2>3 DEF Ranked
<1>. QED BY <1>1, OnlyInsertAdds, InsertRanked

(* Of two signed rows the later names no predecessor as early as the first's. *)
LEMMA RankOfPrev ==
  ASSUME ChainInv, NEW d, IsRank(d), GoesUp(d, rows), NEW q \in Signed(rows)
  PROVE  d[q.hash] \in Nat /\ d[q.prev] \in Nat /\ d[q.hash] = d[q.prev] + 1
<1>1. q.hash # NoHash /\ q.hash[2] = q.prev
  BY HashParts DEF ChainInv, Linked, Signed
<1>. QED BY <1>1 DEF IsRank, GoesUp

(* The columns of a row. *)
Shaped == \A r \in rows : r = [id |-> r.id, stamp |-> r.stamp, prev |-> r.prev, hash |-> r.hash]

LEMMA NextShaped == Shaped /\ [Next]_vars => Shaped'
<1>. SUFFICES ASSUME Shaped, [Next]_vars PROVE Shaped'
  OBVIOUS
<1>1. CASE rows' \subseteq rows
  BY <1>1 DEF Shaped
<1>2. ASSUME NEW t \in Thread, Insert(t) PROVE Shaped'
  <2>1. PICK stamp \in 0 .. today : rows' = rows \cup {NewRow(t, stamp)}
    BY <1>2 DEF Insert
  <2>. DEFINE new == NewRow(t, stamp)
  <2>2. new = [id |-> new.id, stamp |-> new.stamp, prev |-> new.prev, hash |-> new.hash]
    BY DEF NewRow
  <2>. HIDE DEF new
  <2>. QED BY <2>1, <2>2 DEF Shaped, new
<1>. QED BY <1>1, <1>2, OnlyInsertAdds

(***************************************************************************)
(* verify_chain decides ChainOk.  The loop is a recursive function of the   *)
(* id it has come to; that such a function exists, and what it says of the *)
(* rows met so far, is shown by going up from 0.                           *)
(***************************************************************************)

LEMMA GoingUp ==
  ASSUME NEW n \in Nat, NEW S, 0 \in S, \A i \in 1 .. n : i - 1 \in S => i \in S
  PROVE  \A i \in 0 .. n : i \in S
<1>. DEFINE Missing == {i \in 0 .. n : i \notin S}
<1>. SUFFICES ASSUME Missing # {} PROVE FALSE
  OBVIOUS
<1>1. PICK i \in Missing : \A j \in Missing : i <= j
  <2>1. Missing \subseteq Nat
    OBVIOUS
  <2>. HIDE DEF Missing
  <2>. QED BY <2>1, LeastNat
<1>2. i # 0 /\ i \in 1 .. n /\ i - 1 \in 0 .. n
  BY <1>1
<1>3. i - 1 \notin Missing
  BY <1>1, <1>2
<1>. QED BY <1>1, <1>2, <1>3

(* The loop as far as id n. *)
IsLoop(f, n, table, k) ==
  f = [i \in 0 .. n |-> IF i = 0 THEN Start ELSE Visit(f[i - 1], k, table, i)]

LEMMA LoopExists ==
  ASSUME NEW n \in Nat, NEW table, NEW k
  PROVE  \E f : IsLoop(f, n, table, k)
<1>. DEFINE S == {i \in 0 .. n : \E f : IsLoop(f, i, table, k)}
<1>1. 0 \in S
  <2>. DEFINE f == [i \in 0 .. 0 |-> Start]
  <2>1. \A i \in 0 .. 0 : i = 0
    OBVIOUS
  <2>. HIDE DEF f
  <2>2. f = [i \in 0 .. 0 |-> IF i = 0 THEN Start ELSE Visit(f[i - 1], k, table, i)]
    BY <2>1 DEF f
  <2>3. 0 \in 0 .. n
    OBVIOUS
  <2>. QED BY <2>2, <2>3 DEF IsLoop
<1>2. ASSUME NEW m \in 1 .. n, m - 1 \in S PROVE m \in S
  <2>1. PICK f : IsLoop(f, m - 1, table, k)
    BY <1>2
  <2>. DEFINE g == [i \in 0 .. m |-> IF i = m THEN Visit(f[m - 1], k, table, m) ELSE f[i]]
  <2>2. \A i \in 0 .. m : g[i] = IF i = 0 THEN Start ELSE Visit(g[i - 1], k, table, i)
    <3>1. ASSUME NEW i \in 0 .. m - 1
          PROVE  g[i] = f[i] /\ f[i] = IF i = 0 THEN Start ELSE Visit(f[i - 1], k, table, i)
      BY <2>1 DEF IsLoop
    <3>2. g[m] = Visit(f[m - 1], k, table, m)
      OBVIOUS
    <3>3. ASSUME NEW i \in 0 .. m PROVE i = m \/ i \in 0 .. m - 1
      OBVIOUS
    <3>4. ASSUME NEW i \in 1 .. m PROVE i - 1 \in 0 .. m - 1
      OBVIOUS
    <3>. HIDE DEF g
    <3>. QED BY <3>1, <3>2, <3>3, <3>4
  <2>3. g = [i \in 0 .. m |-> g[i]]
    OBVIOUS
  <2>. HIDE DEF g
  <2>4. IsLoop(g, m, table, k)
    BY <2>2, <2>3 DEF IsLoop
  <2>. QED BY <2>4
<1>. HIDE DEF S
<1>3. n \in S
  BY <1>1, <1>2, GoingUp
<1>. QED BY <1>3 DEF S

LEMMA VerifyLoops ==
  ASSUME NEW table, NEW k, k # NoKey, nextId \in Nat \ {0}
  PROVE  \E f : IsLoop(f, nextId - 1, table, k) /\ Verify(table, k) = f[nextId - 1]
<1>. DEFINE loop == CHOOSE f : IsLoop(f, nextId - 1, table, k)
<1>1. IsLoop(loop, nextId - 1, table, k)
  <2>1. nextId - 1 \in Nat
    OBVIOUS
  <2>. QED BY <2>1, LoopExists
<1>2. Verify(table, k) = loop[nextId - 1]
  BY DEF Verify, IsLoop
<1>. QED BY <1>1, <1>2

Reasons == {"no", "key_missing", "prev_hash_mismatch", "hash_mismatch", "missing_hash_after_chain_start"}

VState(table) ==
  [started : BOOLEAN, expected : {NoHash} \cup {r.hash : r \in table},
   prevId : Nat, gaps : SUBSET Nat, broken : Reasons]

(* Whether a row is accepted by the loop. *)
Accepted(v, k, row) ==
  IF row.hash = NoHash THEN ~v.started
  ELSE ~LinkBroken(v, row) /\ row.hash = Hash(k, row.prev, row.stamp)

LEMMA BreakSays ==
  ASSUME NEW table, NEW v \in VState(table), NEW reason \in Reasons
  PROVE  /\ Break(v, reason) \in VState(table)
         /\ Break(v, reason).broken = reason
  BY DEF Break, VState

LEMMA MarkGapSays ==
  ASSUME NEW table, NEW v \in VState(table), NEW row, row.id \in Nat
  PROVE  /\ MarkGap(v, row) \in VState(table)
         /\ v.gaps \subseteq MarkGap(v, row).gaps
         /\ v.started /\ row.prev # v.expected => row.id \in MarkGap(v, row).gaps
         /\ MarkGap(v, row).broken = v.broken
  BY DEF MarkGap, VState

LEMMA VerifyRowSays ==
  ASSUME NEW table, NEW v \in VState(table), NEW k, NEW row \in table, row.id \in Nat, v.broken = "no"
  PROVE  LET w == VerifyRow(v, k, row) IN
           /\ w \in VState(table)
           /\ w.broken = "no" <=> Accepted(v, k, row)
           /\ w.broken = "no" =>
                /\ w.prevId = row.id
                /\ v.gaps \subseteq w.gaps
                /\ w.started <=> v.started \/ row.hash # NoHash
                /\ row.hash # NoHash => w.expected = row.hash
                /\ row.hash # NoHash /\ v.started /\ row.prev # v.expected => row.id \in w.gaps
<1>. DEFINE w == VerifyRow(v, k, row)
            m == MarkGap(v, row)
<1>0. m \in VState(table) /\ v.gaps \subseteq m.gaps /\ m.broken = "no"
      /\ (v.started /\ row.prev # v.expected => row.id \in m.gaps)
  BY MarkGapSays
<1>1. CASE row.hash = NoHash /\ v.started
  <2>1. w = Break(v, "missing_hash_after_chain_start")
    BY <1>1 DEF VerifyRow
  <2>. HIDE DEF w
  <2>2. w \in VState(table) /\ w.broken # "no"
    BY <2>1, BreakSays DEF Reasons
  <2>3. ~Accepted(v, k, row)
    BY <1>1 DEF Accepted
  <2>. QED BY <2>2, <2>3 DEF w
<1>2. CASE row.hash = NoHash /\ ~v.started
  <2>1. w = [v EXCEPT !.prevId = row.id]
    BY <1>2 DEF VerifyRow
  <2>. HIDE DEF w
  <2>2. /\ w \in VState(table) /\ w.broken = "no" /\ w.prevId = row.id
        /\ w.gaps = v.gaps /\ w.started = v.started
    BY <2>1 DEF VState
  <2>3. Accepted(v, k, row)
    BY <1>2 DEF Accepted
  <2>. QED BY <1>2, <2>2, <2>3 DEF w
<1>3. CASE row.hash # NoHash /\ LinkBroken(v, row)
  <2>1. w = Break(v, "prev_hash_mismatch")
    BY <1>3 DEF VerifyRow, VerifySigned
  <2>. HIDE DEF w
  <2>2. w \in VState(table) /\ w.broken # "no"
    BY <2>1, BreakSays DEF Reasons
  <2>3. ~Accepted(v, k, row)
    BY <1>3 DEF Accepted
  <2>. QED BY <2>2, <2>3 DEF w
<1>4. CASE row.hash # NoHash /\ ~LinkBroken(v, row) /\ row.hash # Hash(k, row.prev, row.stamp)
  <2>1. w = Break(m, "hash_mismatch")
    BY <1>4 DEF VerifyRow, VerifySigned
  <2>. HIDE DEF w, m
  <2>2. w \in VState(table) /\ w.broken # "no"
    BY <1>0, <2>1, BreakSays DEF Reasons
  <2>3. ~Accepted(v, k, row)
    BY <1>4 DEF Accepted
  <2>. QED BY <2>2, <2>3 DEF w
<1>5. CASE row.hash # NoHash /\ ~LinkBroken(v, row) /\ row.hash = Hash(k, row.prev, row.stamp)
  <2>. DEFINE w1 == [m EXCEPT !.started = TRUE]
              w2 == [w1 EXCEPT !.expected = row.hash]
  <2>1. w = [w2 EXCEPT !.prevId = row.id]
    BY <1>5, Zenon DEF VerifyRow, VerifySigned
  <2>. HIDE DEF w, m
  <2>2. w1 \in VState(table) /\ w1.started /\ w1.gaps = m.gaps /\ w1.broken = "no"
    BY <1>0 DEF VState
  <2>. HIDE DEF w1
  <2>3. /\ w2 \in VState(table) /\ w2.started /\ w2.gaps = m.gaps /\ w2.broken = "no"
        /\ w2.expected = row.hash
    BY <2>2 DEF VState
  <2>. HIDE DEF w2
  <2>4. /\ w \in VState(table) /\ w.started /\ w.gaps = m.gaps /\ w.broken = "no"
        /\ w.expected = row.hash /\ w.prevId = row.id
    BY <2>1, <2>3 DEF VState
  <2>5. Accepted(v, k, row)
    BY <1>5 DEF Accepted
  <2>. QED BY <1>0, <1>5, <2>4, <2>5 DEF w
<1>. QED BY <1>1, <1>2, <1>3, <1>4, <1>5

(* A table whose rows have ids of their own. *)
Keyed(table) ==
  /\ \A r \in table : r.id \in 1 .. nextId - 1
  /\ \A p, r \in table : p.id = r.id => p = r

Below(table, i) == {r \in table : r.id <= i}

(* What one more row, after all the others, asks of it. *)
Fits(table, k, row) ==
  IF row.hash = NoHash THEN Signed(table) = {}
  ELSE /\ row.hash = Hash(k, row.prev, row.stamp)
       /\ \A p \in Signed(table) : row.id = p.id + 1 => row.prev = p.hash

LEMMA ChainGrows ==
  ASSUME NEW table, NEW row, NEW k, \A q \in table : q.id \in Nat /\ q.id < row.id, row.id \in Nat
  PROVE  ChainOk(table \cup {row}, k) <=> ChainOk(table, k) /\ Fits(table, k, row)
<1>. DEFINE grown == table \cup {row}
<1>1. CASE row.hash = NoHash
  <2>1. Signed(grown) = Signed(table) /\ grown \ Signed(grown) = (table \ Signed(table)) \cup {row}
    BY <1>1 DEF Signed
  <2>2. ChainOk(grown, k) => ChainOk(table, k) /\ Signed(table) = {}
    <3>1. ChainOk(grown, k) => ChainOk(table, k)
      BY <2>1 DEF ChainOk
    <3>2. ASSUME ChainOk(grown, k), NEW r \in Signed(table) PROVE FALSE
      <4>1. row.id < r.id /\ r.id < row.id /\ r.id \in Nat
        BY <2>1, <3>2 DEF ChainOk, Signed
      <4>. QED BY <4>1
    <3>. QED BY <3>1, <3>2
  <2>3. ChainOk(table, k) /\ Signed(table) = {} => ChainOk(grown, k)
    BY <2>1 DEF ChainOk
  <2>. QED BY <1>1, <2>2, <2>3 DEF Fits
<1>2. CASE row.hash # NoHash
  <2>1. Signed(grown) = Signed(table) \cup {row} /\ grown \ Signed(grown) = table \ Signed(table)
    BY <1>2 DEF Signed
  <2>2. ChainOk(grown, k) => ChainOk(table, k) /\ Fits(table, k, row)
    <3>. HIDE DEF grown
    <3>. QED BY <1>2, <2>1 DEF ChainOk, Fits
  <2>3. ASSUME ChainOk(table, k), Fits(table, k, row) PROVE ChainOk(grown, k)
    <3>1. \A r \in Signed(grown), q \in grown \ Signed(grown) : q.id < r.id
      BY <2>1, <2>3 DEF ChainOk
    <3>2. \A r \in Signed(grown) : r.hash = Hash(k, r.prev, r.stamp)
      BY <1>2, <2>1, <2>3 DEF ChainOk, Fits
    <3>3. ASSUME NEW p \in Signed(grown), NEW r \in Signed(grown), r.id = p.id + 1
          PROVE  r.prev = p.hash
      <4>1. p.id \in Nat /\ r.id \in Nat /\ p.id <= row.id /\ r.id <= row.id
        BY <2>1 DEF Signed
      <4>2. p \in Signed(table)
        <5>1. p # row
          BY <3>3, <4>1
        <5>. QED BY <2>1, <5>1
      <4>3. CASE r \in Signed(table)
        BY <2>3, <3>3, <4>2, <4>3 DEF ChainOk
      <4>4. CASE r = row
        BY <1>2, <2>3, <3>3, <4>2, <4>4 DEF Fits
      <4>. QED BY <2>1, <4>3, <4>4
    <3>. HIDE DEF grown
    <3>. QED BY <3>1, <3>2, <3>3 DEF ChainOk
  <2>. QED BY <2>2, <2>3
<1>. QED BY <1>1, <1>2

(* What the verifier knows when it has met every row up to the id i. *)
IsLast(r, v, seen) ==
  /\ r \in seen /\ r.id = v.prevId
  /\ \A q \in seen : q.id <= r.id
  /\ v.started => r \in Signed(seen) /\ v.expected = r.hash

GapsNoted(v, seen) ==
  \A p, s \in Signed(seen) :
    p.id < s.id /\ s.prev # p.hash /\ (\A q \in seen : ~(p.id < q.id /\ q.id < s.id))
      => s.id \in v.gaps

Knows(v, seen) ==
  /\ v.started <=> Signed(seen) # {}
  /\ seen # {} => \E r \in seen : IsLast(r, v, seen)
  /\ GapsNoted(v, seen)

Seen(v, table, k, i) ==
  /\ v \in VState(table)
  /\ v.broken = "no" <=> ChainOk(Below(table, i), k)
  /\ v.broken = "no" => Knows(v, Below(table, i))

LEMMA SeenStart ==
  ASSUME NEW table, NEW k, Keyed(table)
  PROVE  Seen(Start, table, k, 0)
<1>1. Below(table, 0) = {}
  BY DEF Below, Keyed
<1>2. Start \in VState(table)
  BY DEF Start, VState, Reasons
<1>3. Start.broken = "no" /\ ~Start.started
  BY DEF Start
<1>4. Signed({}) = {}
  BY DEF Signed
<1>5. ChainOk({}, k)
  BY <1>4 DEF ChainOk
<1>6. Knows(Start, {})
  BY <1>3, <1>4 DEF Knows, GapsNoted
<1>. HIDE DEF Start
<1>. QED BY <1>1, <1>2, <1>3, <1>5, <1>6 DEF Seen

(* The loop accepts the row that fits the chain so far. *)
LEMMA AcceptedFits ==
  ASSUME NEW table, NEW k, nextId \in Nat, Keyed(table), NEW seen \in SUBSET table,
         NEW v \in VState(table), Knows(v, seen),
         NEW row \in table, \A q \in seen : q.id < row.id
  PROVE  Accepted(v, k, row) <=> Fits(seen, k, row)
<1>0. \A q \in seen : q.id \in Nat /\ q.id # 0 /\ row.id \in Nat
  BY DEF Keyed
<1>1. CASE row.hash = NoHash
  BY <1>1 DEF Accepted, Fits, Knows, VState
<1>2. CASE row.hash # NoHash /\ ~v.started
  <2>1. Signed(seen) = {}
    BY <1>2 DEF Knows
  <2>. QED BY <1>2, <2>1 DEF Accepted, Fits, LinkBroken
<1>3. CASE row.hash # NoHash /\ v.started
  <2>1. PICK last \in seen : IsLast(last, v, seen)
    BY <1>3 DEF Knows, Signed
  <2>2. /\ last \in Signed(seen) /\ v.expected = last.hash /\ v.prevId = last.id
        /\ \A q \in seen : q.id <= last.id
    BY <1>3, <2>1 DEF IsLast
  <2>3. LinkBroken(v, row) <=> row.prev # last.hash /\ row.id = last.id + 1
    BY <1>0, <1>3, <2>2 DEF LinkBroken, IdGap
  <2>4. ASSUME NEW p \in Signed(seen), row.id = p.id + 1 PROVE p = last
    <3>1. p \in seen /\ p.id <= last.id /\ last.id < row.id /\ p.id \in Nat /\ last.id \in Nat
      BY <1>0, <2>2 DEF Signed
    <3>2. p.id = last.id
      BY <2>4, <3>1
    <3>. QED BY <3>1, <3>2 DEF Keyed
  <2>5. (\A p \in Signed(seen) : row.id = p.id + 1 => row.prev = p.hash)
           <=> (row.id = last.id + 1 => row.prev = last.hash)
    BY <2>2, <2>4
  <2>. QED BY <1>3, <2>3, <2>5 DEF Accepted, Fits
<1>. QED BY <1>1, <1>2, <1>3 DEF VState

LEMMA SeenNext ==
  ASSUME NEW table, NEW k, nextId \in Nat, Keyed(table),
         NEW i \in 1 .. nextId - 1, NEW v, Seen(v, table, k, i - 1)
  PROVE  Seen(Visit(v, k, table, i), table, k, i)
<1>. DEFINE seen == Below(table, i - 1)
<1>0. \A r \in table : r.id \in Nat
  BY DEF Keyed
<1>1. CASE ~\E row \in table : row.id = i
  <2>1. Below(table, i) = seen
    BY <1>0, <1>1 DEF Below
  <2>2. Visit(v, k, table, i) = v
    BY <1>1 DEF Visit
  <2>. QED BY <2>1, <2>2 DEF Seen
<1>2. CASE \E row \in table : row.id = i
  <2>1. PICK row \in table : row.id = i /\ Visit(v, k, table, i) = VerifyRow(v, k, row)
    <3>. DEFINE met == CHOOSE row \in table : row.id = i
    <3>1. met \in table /\ met.id = i
      BY <1>2
    <3>. QED BY <1>2, <3>1 DEF Visit
  <2>2. Below(table, i) = seen \cup {row} /\ seen \subseteq table /\ row \notin seen
        /\ \A q \in seen : q.id \in Nat /\ q.id < row.id
    BY <1>0, <2>1 DEF Below, Keyed
  <2>. HIDE DEF seen
  <2>3. v \in VState(table) /\ (v.broken = "no" <=> ChainOk(seen, k)) /\ (v.broken = "no" => Knows(v, seen))
    BY DEF Seen, seen
  <2>4. ChainOk(Below(table, i), k) <=> ChainOk(seen, k) /\ Fits(seen, k, row)
    BY <1>0, <2>2, ChainGrows
  <2>. DEFINE w == VerifyRow(v, k, row)
  <2>5. CASE v.broken # "no"
    <3>1. w = v
      BY <2>5 DEF VerifyRow
    <3>. QED BY <2>1, <2>3, <2>4, <2>5, <3>1 DEF Seen
  <2>6. CASE v.broken = "no"
    <3>1. Accepted(v, k, row) <=> Fits(seen, k, row)
      BY <2>2, <2>3, <2>6, AcceptedFits
    <3>2. /\ w \in VState(table)
          /\ w.broken = "no" <=> Accepted(v, k, row)
          /\ w.broken = "no" =>
               /\ w.prevId = row.id
               /\ v.gaps \subseteq w.gaps
               /\ w.started <=> v.started \/ row.hash # NoHash
               /\ row.hash # NoHash => w.expected = row.hash
               /\ row.hash # NoHash /\ v.started /\ row.prev # v.expected => row.id \in w.gaps
      BY <1>0, <2>3, <2>6, VerifyRowSays
    <3>. HIDE DEF w
    <3>3. w.broken = "no" <=> ChainOk(Below(table, i), k)
      BY <2>3, <2>4, <2>6, <3>1, <3>2
    <3>4. ASSUME w.broken = "no" PROVE Knows(w, seen \cup {row})
      <4>. DEFINE grown == seen \cup {row}
      <4>1. Signed(grown) = IF row.hash = NoHash THEN Signed(seen) ELSE Signed(seen) \cup {row}
        BY DEF Signed
      <4>2. w.started <=> Signed(grown) # {}
        BY <2>3, <2>6, <3>2, <3>4, <4>1 DEF Knows
      <4>3. IsLast(row, w, grown)
        <5>1. w.started => row.hash # NoHash
          BY <3>2, <3>4 DEF Accepted
        <5>2. row \in grown /\ row.id = w.prevId /\ \A q \in grown : q.id <= row.id
          BY <1>0, <2>2, <3>2, <3>4
        <5>3. row.hash # NoHash => row \in Signed(grown) /\ w.expected = row.hash
          BY <3>2, <3>4 DEF Signed
        <5>. HIDE DEF grown
        <5>. QED BY <5>1, <5>2, <5>3 DEF IsLast
      <4>4. ASSUME NEW p \in Signed(grown), NEW s \in Signed(grown), p.id < s.id, s.prev # p.hash,
                   \A q \in grown : ~(p.id < q.id /\ q.id < s.id)
            PROVE  s.id \in w.gaps
        <5>1. p.id \in Nat /\ s.id \in Nat /\ row.id \in Nat /\ p.id <= row.id /\ s.id <= row.id
          BY <1>0, <2>2, <4>1 DEF Signed
        <5>2. p \in Signed(seen)
          <6>1. p # row
            BY <4>4, <5>1
          <6>. QED BY <4>1, <6>1
        <5>3. CASE s \in Signed(seen)
          <6>1. s.id \in v.gaps
            BY <2>3, <2>6, <4>4, <5>2, <5>3 DEF Knows, GapsNoted
          <6>. QED BY <3>2, <3>4, <6>1
        <5>4. CASE s = row /\ row.hash # NoHash
          <6>1. v.started
            BY <2>3, <2>6, <5>2 DEF Knows
          <6>2. PICK last \in seen : IsLast(last, v, seen)
            BY <2>3, <2>6, <5>2 DEF Knows, Signed
          <6>3. last = p
            <7>1. p \in seen /\ p.id <= last.id /\ last.id < row.id /\ last.id \in Nat
              BY <2>2, <5>2, <6>2 DEF IsLast, Signed
            <7>2. last.id = p.id
              BY <4>4, <5>1, <5>4, <7>1
            <7>. QED BY <2>2, <7>1, <7>2 DEF Keyed
          <6>4. v.expected = p.hash
            BY <6>1, <6>2, <6>3 DEF IsLast
          <6>. QED BY <3>2, <3>4, <4>4, <5>4, <6>1, <6>4
        <5>. QED BY <4>1, <5>3, <5>4
      <4>. HIDE DEF grown
      <4>5. GapsNoted(w, grown)
        BY <4>4 DEF GapsNoted
      <4>. QED BY <4>2, <4>3, <4>5 DEF Knows, grown, IsLast
    <3>. QED BY <2>1, <2>2, <3>2, <3>3, <3>4 DEF Seen, w
  <2>. QED BY <2>5, <2>6
<1>. QED BY <1>1, <1>2

(* The loop decides the formula and notes the gaps, on any table.            *)
LEMMA VerifyDecides ==
  ASSUME nextId \in Nat \ {0}, NEW table, Keyed(table), NEW k, k # NoKey
  PROVE  /\ Verify(table, k).broken = "no" <=> ChainOk(table, k)
         /\ Verify(table, k).broken = "no" => GapsNoted(Verify(table, k), table)
<1>. DEFINE n == nextId - 1
<1>0. n \in Nat
  OBVIOUS
<1>1. PICK f : IsLoop(f, n, table, k) /\ Verify(table, k) = f[n]
  BY VerifyLoops
<1>. DEFINE S == {i \in 0 .. n : Seen(f[i], table, k, i)}
<1>2. f[0] = Start /\ \A i \in 1 .. n : f[i] = Visit(f[i - 1], k, table, i)
  <2>1. \A i \in 0 .. n : f[i] = IF i = 0 THEN Start ELSE Visit(f[i - 1], k, table, i)
    <3>. HIDE DEF n
    <3>. QED BY <1>1 DEF IsLoop
  <2>2. 0 \in 0 .. n /\ \A i \in 1 .. n : i \in 0 .. n /\ i # 0
    BY <1>0
  <2>. QED BY <2>1, <2>2
<1>3. 0 \in S
  <2>1. Seen(f[0], table, k, 0)
    BY <1>2, SeenStart
  <2>. QED BY <1>0, <2>1
<1>4. \A i \in 1 .. n : i - 1 \in S => i \in S
  <2>1. ASSUME NEW i \in 1 .. n, Seen(f[i - 1], table, k, i - 1) PROVE Seen(f[i], table, k, i)
    <3>1. Seen(Visit(f[i - 1], k, table, i), table, k, i)
      BY <2>1, SeenNext
    <3>. QED BY <1>2, <3>1
  <2>. QED BY <1>0, <2>1
<1>5. n \in S
  <2>1. n \in 0 .. n
    BY <1>0
  <2>. HIDE DEF S, n
  <2>. QED BY <1>0, <1>3, <1>4, <2>1, GoingUp
<1>6. Below(table, n) = table
  BY DEF Below, Keyed
<1>7. Seen(Verify(table, k), table, k, n)
  BY <1>1, <1>5
<1>. HIDE DEF n
<1>. QED BY <1>6, <1>7 DEF Seen, Knows

(***************************************************************************)
(* The tables one change away.                                             *)
(***************************************************************************)

LEMMA RemovalKeyed ==
  ASSUME RowIds, NEW r \in rows
  PROVE  Keyed(rows \ {r})
  BY DEF RowIds, Keyed

(* One row replaced by another under the same id. *)
LEMMA ReplacedKeyed ==
  ASSUME RowIds, NEW r \in rows, NEW new, new.id = r.id
  PROVE  Keyed((rows \ {r}) \cup {new})
  BY DEF RowIds, Keyed

LEMMA Edits ==
  ASSUME Shaped, NEW r \in rows, NEW v
  PROVE  /\ [r EXCEPT !.stamp = v].id = r.id /\ [r EXCEPT !.stamp = v].stamp = v
         /\ [r EXCEPT !.stamp = v].prev = r.prev /\ [r EXCEPT !.stamp = v].hash = r.hash
         /\ [r EXCEPT !.prev = v].id = r.id /\ [r EXCEPT !.prev = v].stamp = r.stamp
         /\ [r EXCEPT !.prev = v].prev = v /\ [r EXCEPT !.prev = v].hash = r.hash
         /\ [r EXCEPT !.id = v].id = v
         /\ [r EXCEPT !.prev = NoHash, !.hash = NoHash].id = r.id
<1>1. r = [id |-> r.id, stamp |-> r.stamp, prev |-> r.prev, hash |-> r.hash]
  BY DEF Shaped
<1>. QED BY <1>1

LEMMA ChangedKeyed ==
  ASSUME RowIds, Shaped, NEW table \in {rows} \cup Removals \cup Damaged
  PROVE  Keyed(table)
<1>0. Signed(rows) \subseteq rows
  BY DEF Signed
<1>1. CASE table = rows
  BY <1>1 DEF RowIds, Keyed
<1>2. CASE table \in Removals
  BY <1>2, RemovalKeyed DEF Removals
<1>3. ASSUME NEW r \in Signed(rows), NEW h, table = Relinked(r, h) PROVE Keyed(table)
  <2>1. [r EXCEPT !.prev = h].id = r.id
    BY <1>0, Edits
  <2>. QED BY <1>0, <1>3, <2>1, ReplacedKeyed DEF Relinked
<1>4. ASSUME NEW r \in Signed(rows), NEW s, table = Restamped(r, s) PROVE Keyed(table)
  <2>1. [r EXCEPT !.stamp = s].id = r.id
    BY <1>0, Edits
  <2>. QED BY <1>0, <1>4, <2>1, ReplacedKeyed DEF Restamped
<1>5. ASSUME NEW r \in Signed(rows), table = Unsigned(r) PROVE Keyed(table)
  <2>1. [r EXCEPT !.prev = NoHash, !.hash = NoHash].id = r.id
    BY <1>0, Edits
  <2>. QED BY <1>0, <1>5, <2>1, ReplacedKeyed DEF Unsigned
<1>6. ASSUME NEW p \in Signed(rows), NEW r \in Signed(rows), table = Swapped(p, r) PROVE Keyed(table)
  <2>. DEFINE p1 == [p EXCEPT !.id = r.id]
              r1 == [r EXCEPT !.id = p.id]
  <2>1. p1.id = r.id /\ r1.id = p.id
    BY <1>0, Edits
  <2>2. table = (rows \ {p, r}) \cup {p1, r1}
    BY <1>6 DEF Swapped
  <2>3. p = r => p1 = r1
    OBVIOUS
  <2>. HIDE DEF p1, r1
  <2>4. p.id = r.id => p = r
    BY <1>0 DEF RowIds
  <2>. QED BY <1>0, <2>1, <2>2, <2>3, <2>4 DEF RowIds, Keyed
<1>. QED BY <1>1, <1>2, <1>3, <1>4, <1>5, <1>6 DEF Damaged

(* A row whose fields no longer give its hash breaks the chain. *)
LEMMA ModifiedBreaks ==
  ASSUME NEW table, NEW k, NEW r \in table, r.hash # NoHash, r.hash # Hash(k, r.prev, r.stamp)
  PROVE  ~ChainOk(table, k)
  BY DEF ChainOk, Signed

LEMMA HashInjective ==
  \A k, p, q, s, u : Hash(k, p, s) = Hash(k, q, u) => p = q /\ s = u
  BY DEF Hash

LEMMA ModifiedIsFound == ChainInv /\ Shaped => ModifiedRowFound
<1>. SUFFICES ASSUME ChainInv, Shaped, keyFile # NoKey,
                     NEW r \in Signed(rows),
                     NEW table \in {Restamped(r, s) : s \in (0 .. today) \ {r.stamp}}
                                     \cup {Relinked(r, h) : h \in ({NoHash} \cup {q.hash : q \in rows}) \ {r.prev}}
              PROVE  Verify(table, keyFile).broken # "no"
  BY DEF ModifiedRowFound
<1>0. /\ RowIds /\ nextId \in Nat \ {0} /\ r \in rows
      /\ r.hash # NoHash /\ r.hash = Hash(keyFile, r.prev, r.stamp)
  BY DEF ChainInv, RowIds, Linked, Signed
<1>1. ~ChainOk(table, keyFile) /\ Keyed(table)
  <2>1. ASSUME NEW s, s # r.stamp, table = Restamped(r, s)
        PROVE  ~ChainOk(table, keyFile) /\ Keyed(table)
    <3>. DEFINE new == [r EXCEPT !.stamp = s]
    <3>1. new.id = r.id /\ new.stamp = s /\ new.prev = r.prev /\ new.hash = r.hash
      BY <1>0, Edits
    <3>2. table = (rows \ {r}) \cup {new}
      BY <2>1 DEF Restamped
    <3>. HIDE DEF new
    <3>3. new.hash # Hash(keyFile, new.prev, new.stamp)
      BY <1>0, <2>1, <3>1, HashInjective
    <3>. QED BY <1>0, <3>1, <3>2, <3>3, ModifiedBreaks, ReplacedKeyed
  <2>2. ASSUME NEW h, h # r.prev, table = Relinked(r, h)
        PROVE  ~ChainOk(table, keyFile) /\ Keyed(table)
    <3>. DEFINE new == [r EXCEPT !.prev = h]
    <3>1. new.id = r.id /\ new.stamp = r.stamp /\ new.prev = h /\ new.hash = r.hash
      BY <1>0, Edits
    <3>2. table = (rows \ {r}) \cup {new}
      BY <2>2 DEF Relinked
    <3>. HIDE DEF new
    <3>3. new.hash # Hash(keyFile, new.prev, new.stamp)
      BY <1>0, <2>2, <3>1, HashInjective
    <3>. QED BY <1>0, <3>1, <3>2, <3>3, ModifiedBreaks, ReplacedKeyed
  <2>. QED BY <2>1, <2>2
<1>. QED BY <1>0, <1>1, VerifyDecides

LEMMA DeletionIsReported == ChainInv /\ Ranked => DeletionReported
<1>. SUFFICES ASSUME ChainInv, Ranked, keyFile # NoKey,
                     NEW p \in Signed(rows), NEW r \in Signed(rows), NEW s \in Signed(rows),
                     p.id < r.id, r.id < s.id, ~\E q \in rows : q.id > r.id /\ q.id < s.id
              PROVE  s.id \in Verify(rows \ {r}, keyFile).gaps
  BY DEF DeletionReported
<1>. DEFINE table == rows \ {r}
<1>0. /\ RowIds /\ Linked /\ nextId \in Nat \ {0}
      /\ \A q \in rows : q.id \in Nat
      /\ Signed(rows) \subseteq rows
      /\ Signed(table) = Signed(rows) \ {r}
  BY DEF ChainInv, RowIds, Signed
<1>1. Keyed(table)
  BY <1>0, RemovalKeyed
<1>2. ChainOk(table, keyFile)
  BY <1>0 DEF Linked, ChainOk
<1>. HIDE DEF table
<1>3. GapsNoted(Verify(table, keyFile), table)
  BY <1>0, <1>1, <1>2, VerifyDecides
(* The row that now comes before s. *)
<1>4. PICK b \in Signed(rows) : b.id < r.id /\ \A q \in Signed(rows) : q.id < r.id => q.id <= b.id
  <2>. DEFINE before == {q \in Signed(rows) : q.id < r.id}
  <2>1. before \subseteq rows /\ p \in before
    BY <1>0
  <2>2. PICK b \in before : \A q \in before : q.id <= b.id
    <3>. HIDE DEF before
    <3>. QED BY <1>0, <2>1, GreatestId
  <2>. QED BY <2>2
<1>5. b \in Signed(table) /\ s \in Signed(table) /\ b.id < s.id
  <2>1. b # r /\ s # r /\ b.id < s.id
    BY <1>0, <1>4
  <2>. QED BY <1>0, <2>1
<1>6. ASSUME NEW q \in table PROVE ~(b.id < q.id /\ q.id < s.id)
  <2>1. q \in rows /\ q # r
    BY DEF table
  <2>2. q.id # r.id
    BY <1>0, <2>1 DEF RowIds
  <2>3. CASE q \in Signed(rows)
    BY <1>0, <1>4, <2>1, <2>2, <2>3
  <2>4. CASE q \notin Signed(rows)
    <3>1. q.id < b.id
      BY <1>0, <2>1, <2>4 DEF Linked
    <3>. QED BY <1>0, <2>1, <3>1
  <2>. QED BY <2>3, <2>4
<1>7. s.prev # b.hash
  <2>1. PICK d : IsRank(d) /\ GoesUp(d, rows)
    BY DEF Ranked
  <2>2. /\ d[s.hash] \in Nat /\ d[s.prev] \in Nat /\ d[s.hash] = d[s.prev] + 1
        /\ d[r.hash] \in Nat /\ d[b.hash] \in Nat
    BY <2>1, RankOfPrev
  <2>3. d[b.hash] < d[r.hash] /\ d[r.hash] < d[s.hash]
    BY <1>4, <2>1 DEF GoesUp
  <2>4. d[b.hash] < d[s.prev]
    BY <2>2, <2>3
  <2>. QED BY <2>2, <2>4
<1>8. s.id \in Verify(table, keyFile).gaps
  BY <1>3, <1>5, <1>6, <1>7 DEF GapsNoted
<1>. QED BY <1>8 DEF table

LEMMA ChainInvHolds == Spec => []ChainInv
<1>. QED BY InitInv, NextInv, PTL DEF Spec

LEMMA RankedHolds == Spec => []Ranked
  BY ChainInvHolds, InitRanked, NextRanked, PTL DEF Spec

LEMMA ShapedHolds == Spec => []Shaped
<1>1. Init => Shaped
  BY DEF Init, Shaped
<1>. QED BY <1>1, NextShaped, PTL DEF Spec

(***************************************************************************)
(* Theorems.                                                               *)
(***************************************************************************)

(* Whatever the interleaving of writers, prunes, failures and crashes, of    *)
(* any number of processes and threads, verify_chain accepts the table.      *)
THEOREM ChainAlwaysVerifies == Spec => []ChainVerifies
<1>1. ChainInv => ChainVerifies
  BY DEF ChainInv, Linked, ChainVerifies, ChainOk
<1>. QED BY <1>1, ChainInvHolds, PTL

(* Processes that race to create the key file all sign with the key it ends  *)
(* up with.                                                                  *)
THEOREM KeysAlwaysAgree == Spec => []KeysAgree
<1>1. ChainInv => KeysAgree
  BY DEF ChainInv
<1>. QED BY <1>1, ChainInvHolds, PTL

(* However writers interleave and whatever is pruned between and around them,*)
(* no two rows of the table name the same predecessor.                       *)
THEOREM ChainNeverForks == Spec => []NoFork
<1>1. ChainInv /\ Ranked => NoFork
  <2>. SUFFICES ASSUME ChainInv, Ranked,
                       NEW p \in Signed(rows), NEW r \in Signed(rows), p.prev = r.prev
                PROVE  p = r
    BY DEF NoFork
  <2>1. PICK d : IsRank(d) /\ GoesUp(d, rows)
    BY DEF Ranked
  <2>2. /\ d[p.hash] \in Nat /\ d[p.hash] = d[p.prev] + 1
        /\ d[r.hash] \in Nat /\ d[r.hash] = d[r.prev] + 1
    BY <2>1, RankOfPrev
  <2>3. d[p.hash] = d[r.hash]
    BY <2>2
  <2>4. ~(p.id < r.id) /\ ~(r.id < p.id)
    BY <2>1, <2>2, <2>3 DEF GoesUp
  <2>5. p.id = r.id
    BY <2>4 DEF ChainInv, RowIds, Signed
  <2>. QED BY <2>5 DEF ChainInv, RowIds, Signed
<1>. QED BY <1>1, RankedHolds, ChainInvHolds, PTL

(* Over the whole of every table the program leaves, and over every table    *)
(* one removal, edit or swap away from it, the loop of verify_chain decides  *)
(* ChainOk: it reports a break if and only if there is one.                  *)
THEOREM VerifyAlwaysAgrees == Spec => []VerifyAgrees
<1>1. ChainInv /\ Shaped => VerifyAgrees
  <2>. SUFFICES ASSUME ChainInv, Shaped, keyFile # NoKey,
                       NEW table \in {rows} \cup Removals \cup Damaged
                PROVE  Verify(table, keyFile).broken = "no" <=> ChainOk(table, keyFile)
    BY DEF VerifyAgrees
  <2>1. RowIds /\ nextId \in Nat \ {0}
    BY DEF ChainInv, RowIds
  <2>2. Keyed(table)
    BY <2>1, ChangedKeyed
  <2>. QED BY <2>1, <2>2, VerifyDecides
<1>. QED BY <1>1, ShapedHolds, ChainInvHolds, PTL

(* A modified row is found wherever it stands, and a row deleted between two *)
(* signed ones is reported as a gap at the row after it, in every reachable  *)
(* table and whatever has been pruned around it.                             *)
THEOREM DamageIsReported == Spec => []DamageReported
<1>1. ChainInv /\ Shaped /\ Ranked => DamageReported
  BY ModifiedIsFound, DeletionIsReported DEF DamageReported
<1>. QED BY <1>1, RankedHolds, ShapedHolds, ChainInvHolds, PTL
=============================================================================
