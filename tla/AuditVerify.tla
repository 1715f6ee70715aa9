---------------------------- MODULE AuditVerify ----------------------------
(***************************************************************************)
(* verify_chain of audit/logger.py: the loop over the rows in the order of *)
(* their ids, compared with the formula ChainOk it has to decide.          *)
(***************************************************************************)
EXTENDS AuditChain

Start == [started  |-> FALSE,   \* chain_started
          expected |-> NoHash,  \* expected_prev_hash
          prevId   |-> 0,       \* prev_row_id, 0 for None
          gaps     |-> {},      \* pruned_gaps
          broken   |-> "no"]    \* first_break_reason

Break(v, reason) == [v EXCEPT !.broken = reason]

(* Mutant of LinkBroken: an id gap no longer excuses a mismatch. *)
LinkBrokenAnyGap(v, row) == v.started /\ row.prev # v.expected

IdGap(v, row) == v.prevId # 0 /\ row.id # v.prevId + 1

LinkBroken(v, row) == v.started /\ row.prev # v.expected /\ ~IdGap(v, row)

(* Mutant of VerifySigned: the row's own prev_hash replaces the expected one *)
(* without being recorded as a gap.                                          *)
VerifySignedSilently(v, k, row) ==
  IF LinkBroken(v, row) THEN Break(v, "prev_hash_mismatch")
  ELSE IF row.hash # Hash(k, row.prev, row.stamp) THEN Break(v, "hash_mismatch")
  ELSE [v EXCEPT !.started = TRUE, !.expected = row.hash, !.prevId = row.id]

(* A mismatch that an id gap excuses is noted. *)
MarkGap(v, row) ==
  IF v.started /\ row.prev # v.expected THEN [v EXCEPT !.gaps = @ \cup {row.id}] ELSE v

VerifySigned(v, k, row) ==
  IF LinkBroken(v, row) THEN Break(v, "prev_hash_mismatch")
  ELSE IF row.hash # Hash(k, row.prev, row.stamp) THEN Break(MarkGap(v, row), "hash_mismatch")
  ELSE [MarkGap(v, row) EXCEPT !.started = TRUE, !.expected = row.hash, !.prevId = row.id]

VerifyRow(v, k, row) ==
  IF v.broken # "no" THEN v
  ELSE IF row.hash # NoHash THEN VerifySigned(v, k, row)
  ELSE IF v.started THEN Break(v, "missing_hash_after_chain_start")
  ELSE [v EXCEPT !.prevId = row.id]

(* ORDER BY id: the loop meets the row with id i after those below it. *)
Visit(v, k, table, i) ==
  IF \E row \in table : row.id = i
    THEN VerifyRow(v, k, CHOOSE row \in table : row.id = i) ELSE v

Verify(table, k) ==
  LET upTo[i \in 0 .. nextId - 1] == IF i = 0 THEN Start ELSE Visit(upTo[i - 1], k, table, i)
  IN  IF k = NoKey THEN Break(Start, "key_missing") ELSE upTo[nextId - 1]

-----------------------------------------------------------------------------
(* Tables one change away from what the program wrote. *)
Removals == {rows \ {r} : r \in rows}

Relinked(r, h) == (rows \ {r}) \cup {[r EXCEPT !.prev = h]}
Restamped(r, s) == (rows \ {r}) \cup {[r EXCEPT !.stamp = s]}
Unsigned(r) == (rows \ {r}) \cup {[r EXCEPT !.prev = NoHash, !.hash = NoHash]}
Swapped(p, r) ==
  (rows \ {p, r}) \cup {[p EXCEPT !.id = r.id], [r EXCEPT !.id = p.id]}

Damaged ==
  {Relinked(r, h) : r \in Signed(rows), h \in {NoHash} \cup {q.hash : q \in rows}}
    \cup {Restamped(r, s) : r \in Signed(rows), s \in 0 .. today}
    \cup {Unsigned(r) : r \in Signed(rows)}
    \cup {Swapped(p, r) : p, r \in Signed(rows)}

(* The loop decides the formula, on every table the program writes and on    *)
(* every table one removal or one damaged row away from it.                  *)
VerifyAgrees ==
  keyFile # NoKey =>
    \A table \in {rows} \cup Removals \cup Damaged :
      Verify(table, keyFile).broken = "no" <=> ChainOk(table, keyFile)

(* audit-chain.md: a row modified since it was written is found, wherever it *)
(* stands and whatever was pruned around it.                                 *)
ModifiedRowFound ==
  keyFile # NoKey =>
    \A r \in Signed(rows) :
      \A table \in {Restamped(r, s) : s \in (0 .. today) \ {r.stamp}}
                     \cup {Relinked(r, h) : h \in ({NoHash} \cup {q.hash : q \in rows}) \ {r.prev}} :
        Verify(table, keyFile).broken # "no"

(* audit-chain.md: deleting a row between two signed ones is no break but is *)
(* reported as a gap at the row after it.                                    *)
DeletionReported ==
  keyFile # NoKey =>
    \A p, r, s \in Signed(rows) :
      (p.id < r.id /\ r.id < s.id /\ ~\E q \in rows : q.id > r.id /\ q.id < s.id)
        => s.id \in Verify(rows \ {r}, keyFile).gaps

(* What verify_chain is for: neither goes unnoticed.                         *)
DamageReported == ModifiedRowFound /\ DeletionReported
=============================================================================
