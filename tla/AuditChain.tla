----------------------------- MODULE AuditChain -----------------------------
(***************************************************************************)
(* The tamper-evident audit log: concurrent calls of audit::record that    *)
(* append rows of audit_events under one transaction-scoped advisory lock, *)
(* the verification of the chain, and the retention task of each server,   *)
(* which archives rows older than 90 days to the object store and then     *)
(* deletes them.                                                           *)
(*                                                                         *)
(* SHA-256 is modelled as collision-free: hash_chain(prev, canonical) is   *)
(* the sequence prev with the canonical row appended.  GENESIS is the      *)
(* empty sequence; so is the NULL row_hash of a row older than the hashing *)
(* migration, which hash_chain never returns and which record() reads as   *)
(* GENESIS.  Of a canonical row only the id and created_at are kept.       *)
(***************************************************************************)
EXTENDS Integers, Sequences

CONSTANTS
    Writers,         \* concurrent calls of audit::record
    Keepers,         \* servers whose housekeeping enforces the retention
    Legacy,          \* rows written before the hashing migration
    Retention,       \* age, in clock ticks, beyond which a row is stale
    Skew,            \* how far a writer's clock may lag behind
    TicksPerSecond,  \* an archive's key has the resolution of a second
    MaxId,           \* bound: ids drawn
    MaxTime          \* bound: clock ticks

ASSUME AuditAssumption ==
    /\ Legacy \in Nat /\ Retention \in Nat /\ Skew \in Nat
    /\ TicksPerSecond \in Nat \ {0}
    /\ MaxId \in Nat /\ MaxTime \in Nat

VARIABLES
    rows,     \* the committed rows of audit_events
    archive,  \* audit-archive/*.ndjson: <<second, rows>>, one per second
    logged,   \* every row that was ever committed (history)
    lock,     \* who holds pg_advisory_xact_lock: a set, empty or one writer
    ws,       \* local state of each writer
    ks,       \* local state of each retention task
    nextId,   \* the next uuid
    nextSeq,  \* the sequence behind chain_seq; a rollback does not return it
    now

vars == <<rows, archive, logged, lock, ws, ks, nextId, nextSeq, now>>

Genesis == <<>>

\* Mutant: created_at is left out of the canonical row.
CanonicalNoTime(id, at) == [id |-> id, at |-> 0]

Canonical(id, at) == [id |-> id, at |-> at]
HashChain(prev, canonical) == Append(prev, canonical)
RowHash(r) == HashChain(r.prev, Canonical(r.id, r.at))

Hashed(r) == r.hash # Genesis
LegacyRow(i) == [seq |-> i, id |-> i, at |-> 0, prev |-> Genesis, hash |-> Genesis]

Idle == [pc |-> "idle"]

\* Mutant: the tip is the row with the latest created_at, as it was before
\* migration 33.
IsLatest(r) == r \in rows /\ \A q \in rows : q.at <= r.at

\* order_by_desc(chain_seq).limit(1)
IsTip(r) == r \in rows /\ \A q \in rows : q.seq <= r.seq

-----------------------------------------------------------------------------
(* audit::record *)

Begin(w) ==
    /\ ws[w] = Idle
    /\ ws' = [ws EXCEPT ![w] = [pc |-> "waiting"]]
    /\ UNCHANGED <<rows, archive, logged, lock, ks, nextId, nextSeq, now>>

\* Mutant: no advisory lock is taken.
LockFree(w) ==
    /\ ws[w].pc = "waiting"
    /\ lock' = {w}
    /\ ws' = [ws EXCEPT ![w] = [pc |-> "locked"]]
    /\ UNCHANGED <<rows, archive, logged, ks, nextId, nextSeq, now>>

\* The lock is the transaction's: only its end releases it.
Lock(w) ==
    /\ ws[w].pc = "waiting"
    /\ lock = {}
    /\ lock' = {w}
    /\ ws' = [ws EXCEPT ![w] = [pc |-> "locked"]]
    /\ UNCHANGED <<rows, archive, logged, ks, nextId, nextSeq, now>>

\* The id and created_at are drawn, and the tip read, inside the lock.
ReadTip(w) ==
    /\ ws[w].pc = "locked"
    /\ nextId <= MaxId
    /\ nextId' = nextId + 1
    /\ \E prev \in {r.hash : r \in rows} \cup {Genesis}, at \in (now - Skew)..now :
         /\ IF rows = {} THEN prev = Genesis
                         ELSE \E r \in rows : IsTip(r) /\ prev = r.hash
         /\ ws' = [ws EXCEPT ![w] = [pc |-> "tip", id |-> nextId, at |-> at,
                                     prev |-> prev]]
    /\ UNCHANGED <<rows, archive, logged, lock, ks, nextSeq, now>>

\* INSERT draws chain_seq; the row is not yet visible.
Insert(w) ==
    /\ ws[w].pc = "tip"
    /\ nextSeq' = nextSeq + 1
    /\ LET t == ws[w]
           row == [seq |-> nextSeq, id |-> t.id, at |-> t.at, prev |-> t.prev,
                   hash |-> HashChain(t.prev, Canonical(t.id, t.at))] IN
       ws' = [ws EXCEPT ![w] = [pc |-> "inserted", row |-> row]]
    /\ UNCHANGED <<rows, archive, logged, lock, ks, nextId, now>>

Commit(w) ==
    /\ ws[w].pc = "inserted"
    /\ rows' = rows \cup {ws[w].row}
    /\ logged' = logged \cup {ws[w].row}
    /\ lock' = lock \ {w}
    /\ ws' = [ws EXCEPT ![w] = Idle]
    /\ UNCHANGED <<archive, ks, nextId, nextSeq, now>>

\* A failed statement, a dropped handler or a crash: the transaction rolls
\* back, and record() swallows the error.
Rollback(w) ==
    /\ ws[w] # Idle
    /\ lock' = lock \ {w}
    /\ ws' = [ws EXCEPT ![w] = Idle]
    /\ UNCHANGED <<rows, archive, logged, ks, nextId, nextSeq, now>>

-----------------------------------------------------------------------------
(* Retention: the audit part of housekeeping::run_once *)

Stale(S, time) == {r \in S : r.at < time - Retention}
Second(time) == time \div TicksPerSecond

\* Read the stale rows; `now` is fixed for the run.
Scan(k) ==
    /\ ks[k] = Idle
    /\ Stale(rows, now) # {}
    /\ ks' = [ks EXCEPT ![k] = [pc |-> "put", time |-> now,
                                stale |-> Stale(rows, now)]]
    /\ UNCHANGED <<rows, archive, logged, lock, ws, nextId, nextSeq, now>>

\* PUT overwrites an object of the same name.
Archive(k) ==
    /\ ks[k].pc = "put"
    /\ LET second == Second(ks[k].time) IN
       archive' = {a \in archive : a[1] # second} \cup {<<second, ks[k].stale>>}
    /\ ks' = [ks EXCEPT ![k].pc = "delete"]
    /\ UNCHANGED <<rows, logged, lock, ws, nextId, nextSeq, now>>

\* Mutant: the DELETE computes its own cutoff instead of the archived one.
ExpungeNow(k) ==
    /\ ks[k].pc = "delete"
    /\ rows' = rows \ Stale(rows, now)
    /\ ks' = [ks EXCEPT ![k] = Idle]
    /\ UNCHANGED <<archive, logged, lock, ws, nextId, nextSeq, now>>

\* DELETE by the same cutoff, not by the rows that were read.
Expunge(k) ==
    /\ ks[k].pc = "delete"
    /\ rows' = rows \ Stale(rows, ks[k].time)
    /\ ks' = [ks EXCEPT ![k] = Idle]
    /\ UNCHANGED <<archive, logged, lock, ws, nextId, nextSeq, now>>

\* Mutant: an interrupted run is not reset as a whole.
GiveUpKeeping(k) ==
    /\ ks[k] # Idle
    /\ ks' = [ks EXCEPT ![k].pc = "idle"]
    /\ UNCHANGED <<rows, archive, logged, lock, ws, nextId, nextSeq, now>>

\* The upload fails ("refusing to purge"), the DELETE fails, or the server
\* stops: the rows stay, archived or not, until a later run.
GiveUp(k) ==
    /\ ks[k] # Idle
    /\ ks' = [ks EXCEPT ![k] = Idle]
    /\ UNCHANGED <<rows, archive, logged, lock, ws, nextId, nextSeq, now>>

-----------------------------------------------------------------------------
\* No transaction stays open as long as the retention period.
Drawn(w) ==
    CASE ws[w].pc = "tip" -> ws[w].at
      [] ws[w].pc = "inserted" -> ws[w].row.at
      [] OTHER -> now

Tick ==
    /\ now < MaxTime
    /\ \A w \in Writers : now < Drawn(w) + Retention
    /\ now' = now + 1
    /\ UNCHANGED <<rows, archive, logged, lock, ws, ks, nextId, nextSeq>>

Init ==
    /\ rows = {LegacyRow(i) : i \in 1..Legacy}
    /\ archive = {}
    /\ logged = rows
    /\ lock = {}
    /\ ws = [w \in Writers |-> Idle]
    /\ ks = [k \in Keepers |-> Idle]
    /\ nextId = Legacy + 1
    /\ nextSeq = Legacy + 1
    /\ now = 0

Record(w) ==
    Begin(w) \/ Lock(w) \/ ReadTip(w) \/ Insert(w) \/ Commit(w) \/ Rollback(w)

Retain(k) == Scan(k) \/ Archive(k) \/ Expunge(k) \/ GiveUp(k)

Next ==
    \/ \E w \in Writers : Record(w)
    \/ \E k \in Keepers : Retain(k)
    \/ Tick

Spec == Init /\ [][Next]_vars

-----------------------------------------------------------------------------
(* verify_chain.  The loop compares each hashed row with the row_hash of   *)
(* the hashed row before it, GENESIS for the first, and stops at the first *)
(* mismatch; its verdict is ok when no row mismatches.                     *)

IsHashedBefore(q, r, S) ==
    /\ q \in S /\ Hashed(q) /\ q.seq < r.seq
    /\ \A x \in S : Hashed(x) /\ x.seq < r.seq => x.seq <= q.seq

\* Mutant: each row is checked on its own, without the row before it.
RowVerifiesAlone(r, S) == r.hash = RowHash(r)

RowVerifies(r, S) ==
    /\ r.hash = RowHash(r)
    /\ \A q \in S : IsHashedBefore(q, r, S) => r.prev = q.hash
    /\ (\A q \in S : ~IsHashedBefore(q, r, S)) => r.prev = Genesis

VerifyOk(S) == \A r \in S : Hashed(r) => RowVerifies(r, S)

-----------------------------------------------------------------------------
(* Properties *)

Hashes == Seq([id : Nat, at : Int])
RowType == [seq : Nat, id : Nat, at : Int, prev : Hashes, hash : Hashes]

WriterState ==
    [pc : {"idle", "waiting", "locked"}]
    \cup [pc : {"tip"}, id : Nat, at : Int, prev : Hashes]
    \cup [pc : {"inserted"}, row : RowType]

KeeperState ==
    {Idle} \cup [pc : {"put", "delete"}, time : Nat, stale : SUBSET RowType]

\* The state keeps its shape: the columns of audit_events, at most one holder
\* of the advisory lock, and the stages of a transaction and of a purge.
TypeOK ==
    /\ rows \subseteq RowType
    /\ archive \subseteq Nat \X SUBSET RowType
    /\ logged \subseteq RowType
    /\ lock \subseteq Writers
    /\ ws \in [Writers -> WriterState]
    /\ ks \in [Keepers -> KeeperState]
    /\ nextId \in Nat /\ nextSeq \in Nat /\ now \in Nat

Adjacent(q, r) ==
    /\ q.seq < r.seq
    /\ \A x \in rows : x.seq <= q.seq \/ x.seq >= r.seq

\* Rows that follow each other in chain_seq order are linked, whatever the
\* interleaving of the writers, the rollbacks and the retention: no fork, no
\* row hashed on a predecessor other than its own.
ChainLinked ==
    \A q, r \in rows : Adjacent(q, r) /\ Hashed(r) => r.prev = q.hash

\* Why the chain does not fork: the parts of an inductive invariant.
Holding == {"locked", "tip", "inserted"}

\* Only the holder of the advisory lock is past it.
LockInv == \A w \in Writers : ws[w].pc \in Holding => lock = {w}

\* chain_seq identifies a row and grows in the order of insertion.
SeqInv ==
    /\ \A r \in rows : r.seq < nextSeq
    /\ \A q, r \in rows : q.seq = r.seq => q = r
    /\ \A w \in Writers : ws[w].pc = "inserted" =>
         /\ ws[w].row.seq < nextSeq
         /\ \A r \in rows : r.seq < ws[w].row.seq

\* Without skew created_at grows along the chain, so that the retention
\* deletes a prefix of it.
TimeInv ==
    Skew = 0 =>
      /\ \A r \in rows : r.at <= now
      /\ \A q, r \in rows : q.seq < r.seq => q.at <= r.at
      /\ \A w \in Writers : ws[w].pc = "tip" =>
           ws[w].at <= now /\ \A r \in rows : r.at <= ws[w].at
      /\ \A w \in Writers : ws[w].pc = "inserted" =>
           ws[w].row.at <= now /\ \A r \in rows : r.at <= ws[w].row.at

\* The predecessor a writer read is still the tip, unless it was deleted.
TipInv ==
    \A w \in Writers :
      /\ ws[w].pc = "tip" => \A r \in rows : IsTip(r) => r.hash = ws[w].prev
      /\ ws[w].pc = "inserted" =>
           \A r \in rows : IsTip(r) => r.hash = ws[w].row.prev

ChainInv == LockInv /\ SeqInv /\ TimeInv /\ TipInv /\ ChainLinked

\* The verification accepts a log that nobody edited.
VerifyAccepts == VerifyOk(rows)

\* It does as long as the retention has not deleted anything yet, whatever the
\* interleaving of the writers and their rollbacks.
WholeLogVerifies == rows = logged => VerifyOk(rows)

\* What may be put in the place of a row: its content or another, linked to any
\* row or to GENESIS, under a hash that is kept, computed anew or set to NULL.
Forgeries(r) ==
    LET links == {Genesis} \cup {q.prev : q \in rows} \cup {q.hash : q \in rows}
        hashes(at, prev) == {r.hash, Genesis, HashChain(prev, Canonical(r.id, at))}
    IN UNION {{[seq |-> r.seq, id |-> r.id, at |-> at, prev |-> prev, hash |-> h] :
                 h \in hashes(at, prev)} : at \in {r.at, r.at + 1}, prev \in links}

\* The verification notices when a hashed row that another row follows is
\* replaced, even by a row whose own hash and link are in order.  (The last row
\* is vouched for by nothing: its replacement under a new hash passes.)
ForgeryDetected ==
    VerifyOk(rows) =>
      \A r \in rows : Hashed(r) /\ ~IsTip(r) =>
        \A f \in Forgeries(r) \ {r} : ~VerifyOk((rows \ {r}) \cup {f})

\* The verification notices when a hashed row is removed from the middle or
\* the front of the log.
RemovalDetected ==
    VerifyOk(rows) =>
      \A r \in rows : Hashed(r) /\ ~IsTip(r) => ~VerifyOk(rows \ {r})

\* A committed row is in the table or in an archive: the retention never
\* deletes what it has not exported, and no export destroys an earlier one.
NothingLost ==
    \A r \in logged : r \in rows \/ \E a \in archive : r \in a[2]

-----------------------------------------------------------------------------
(* The chain implements a linked log *)

Log == INSTANCE LinkedLog
         WITH log <- rows, safe <- UNION {a[2] : a \in archive}

\* Behind the writers, their lock and the servers' retention there is a log
\* that grows linked at its end and is cut at its beginning, never before the
\* rows were exported.
ImplementsLinkedLog == Log!LogSpec
==============================================================================
