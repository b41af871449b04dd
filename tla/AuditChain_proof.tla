-------------------------- MODULE AuditChain_proof --------------------------
(* Proofs about AuditChain, for every number of writers and servers. *)
EXTENDS AuditChain, SequenceTheorems, WellFoundedInduction, TLAPS

-----------------------------------------------------------------------------
(* Type correctness *)

\* hash_chain of well-formed arguments is a hash, and never GENESIS.
LEMMA HashChainType ==
    ASSUME NEW prev \in Hashes, NEW id \in Nat, NEW at \in Int
    PROVE  /\ HashChain(prev, Canonical(id, at)) \in Hashes
           /\ HashChain(prev, Canonical(id, at)) # Genesis
<1>1. Canonical(id, at) \in [id : Nat, at : Int]
  BY DEF Canonical
<1> QED
  BY <1>1, AppendProperties DEF HashChain, Hashes, Genesis

\* GENESIS is the empty sequence.
LEMMA GenesisType == Genesis \in Hashes
BY DEF Genesis, Hashes

\* The shape of the state is preserved by every step of record(), of the
\* retention task and of the clock, for every value of the constants.
THEOREM TypeCorrect == Spec => []TypeOK
<1>1. Init => TypeOK
  <2> SUFFICES ASSUME Init PROVE TypeOK
    OBVIOUS
  <2>1. \A i \in 1..Legacy : LegacyRow(i) \in RowType
    BY AuditAssumption, GenesisType DEF LegacyRow, RowType
  <2>2. rows \subseteq RowType
    BY <2>1 DEF Init
  <2> QED
    BY <2>2, AuditAssumption DEF Init, TypeOK, WriterState, KeeperState, Idle
<1>2. TypeOK /\ [Next]_vars => TypeOK'
  <2> SUFFICES ASSUME TypeOK, [Next]_vars PROVE TypeOK'
    OBVIOUS
  <2> USE DEF TypeOK
  <2>1. ASSUME NEW w \in Writers, Begin(w) PROVE TypeOK'
    BY <2>1 DEF Begin, WriterState
  <2>2. ASSUME NEW w \in Writers, Lock(w) PROVE TypeOK'
    BY <2>2 DEF Lock, WriterState
  <2>3. ASSUME NEW w \in Writers, ReadTip(w) PROVE TypeOK'
    <3>1. PICK prev \in {r.hash : r \in rows} \cup {Genesis},
               at \in (now - Skew)..now :
            ws' = [ws EXCEPT ![w] = [pc |-> "tip", id |-> nextId, at |-> at,
                                     prev |-> prev]]
      BY <2>3 DEF ReadTip
    <3>2. prev \in Hashes
      BY GenesisType DEF RowType
    <3>3. at \in Int
      BY AuditAssumption
    <3>4. [pc |-> "tip", id |-> nextId, at |-> at, prev |-> prev] \in WriterState
      BY <3>2, <3>3 DEF WriterState
    <3>5. ws' \in [Writers -> WriterState]
      BY <3>1, <3>4
    <3> QED
      BY <2>3, <3>5 DEF ReadTip
  <2>4. ASSUME NEW w \in Writers, Insert(w) PROVE TypeOK'
    <3> DEFINE t == ws[w]
               row == [seq |-> nextSeq, id |-> t.id, at |-> t.at,
                       prev |-> t.prev,
                       hash |-> HashChain(t.prev, Canonical(t.id, t.at))]
    <3>1. t.id \in Nat /\ t.at \in Int /\ t.prev \in Hashes
      BY <2>4 DEF Insert, WriterState
    <3>2. row \in RowType
      BY <3>1, HashChainType DEF RowType
    <3>3. [pc |-> "inserted", row |-> row] \in WriterState
      BY <3>2 DEF WriterState
    <3>4. ws' = [ws EXCEPT ![w] = [pc |-> "inserted", row |-> row]]
      BY <2>4 DEF Insert
    <3>5. ws' \in [Writers -> WriterState]
      BY <3>3, <3>4
    <3> QED
      BY <2>4, <3>5 DEF Insert
  <2>5. ASSUME NEW w \in Writers, Commit(w) PROVE TypeOK'
    <3>1. ws[w].row \in RowType
      BY <2>5 DEF Commit, WriterState
    <3> QED
      BY <2>5, <3>1 DEF Commit, WriterState, Idle
  <2>6. ASSUME NEW w \in Writers, Rollback(w) PROVE TypeOK'
    BY <2>6 DEF Rollback, WriterState, Idle
  <2>7. ASSUME NEW k \in Keepers, Scan(k) PROVE TypeOK'
    <3>1. [pc |-> "put", time |-> now, stale |-> Stale(rows, now)] \in KeeperState
      BY DEF KeeperState, Stale
    <3> QED
      BY <2>7, <3>1 DEF Scan
  <2>8. ASSUME NEW k \in Keepers, Archive(k) PROVE TypeOK'
    <3>1. ks[k].time \in Nat /\ ks[k].stale \in SUBSET RowType
      BY <2>8 DEF Archive, KeeperState, Idle
    <3>2. Second(ks[k].time) \in Nat
      BY <3>1, AuditAssumption DEF Second
    <3>3. [ks[k] EXCEPT !.pc = "delete"] \in KeeperState
      BY <2>8 DEF Archive, KeeperState, Idle
    <3> QED
      BY <2>8, <3>1, <3>2, <3>3 DEF Archive
  <2>9. ASSUME NEW k \in Keepers, Expunge(k) PROVE TypeOK'
    BY <2>9 DEF Expunge, KeeperState, Stale
  <2>10. ASSUME NEW k \in Keepers, GiveUp(k) PROVE TypeOK'
    BY <2>10 DEF GiveUp, KeeperState
  <2>11. CASE Tick
    BY <2>11 DEF Tick
  <2>12. CASE UNCHANGED vars
    BY <2>12 DEF vars
  <2> QED
    BY <2>1, <2>2, <2>3, <2>4, <2>5, <2>6, <2>7, <2>8, <2>9, <2>10, <2>11,
       <2>12 DEF Next, Record, Retain
<1> QED
  BY <1>1, <1>2, PTL DEF Spec

-----------------------------------------------------------------------------
(* The chain does not fork *)

\* What the retention deletes is a prefix of the chain when the clocks agree:
\* a row that follows a row that stays, stays.
LEMMA StaleIsPrefix ==
    ASSUME TypeOK, TimeInv, Skew = 0, NEW time \in Nat,
           NEW q \in rows \ Stale(rows, time), NEW x \in rows, q.seq < x.seq
    PROVE  x \in rows \ Stale(rows, time)
<1>1. q.at <= x.at
  BY DEF TimeInv
<1>2. q.at \in Int /\ x.at \in Int
  BY DEF TypeOK, RowType
<1>3. Retention \in Nat
  BY AuditAssumption
<1> QED
  BY <1>1, <1>2, <1>3 DEF Stale

\* The chain and what the writers have read of it agree, for any number of
\* concurrent calls of record(), of rollbacks and of servers, provided the
\* writers' clocks agree or nothing is ever deleted.
THEOREM ChainKept ==
    ASSUME Skew = 0 \/ Keepers = {}
    PROVE  Spec => []ChainInv
<1>1. Init => ChainInv
  <2> SUFFICES ASSUME Init PROVE ChainInv
    OBVIOUS
  <2>1. \A r \in rows : \E i \in 1..Legacy : r = LegacyRow(i)
    BY DEF Init
  <2>2. \A w \in Writers : ws[w].pc = "idle"
    BY DEF Init, Idle
  <2>3. LockInv
    BY <2>2 DEF LockInv, Holding
  <2>4. SeqInv
    BY <2>1, <2>2, AuditAssumption DEF SeqInv, LegacyRow, Init
  <2>5. TimeInv
    BY <2>1, <2>2 DEF TimeInv, LegacyRow, Init
  <2>6. TipInv
    BY <2>2 DEF TipInv
  <2>7. ChainLinked
    BY <2>1 DEF ChainLinked, LegacyRow, Hashed
  <2> QED
    BY <2>3, <2>4, <2>5, <2>6, <2>7 DEF ChainInv
<1>2. TypeOK /\ ChainInv /\ [Next]_vars => ChainInv'
  <2> SUFFICES ASSUME TypeOK, ChainInv, [Next]_vars PROVE ChainInv'
    OBVIOUS
  <2> USE DEF ChainInv
  <2>1. ASSUME NEW w \in Writers, Begin(w) PROVE ChainInv'
    <3>1. \A v \in Writers : ws'[v].pc \in Holding => ws'[v] = ws[v]
      BY <2>1 DEF Begin, Holding, TypeOK
    <3>2. rows' = rows /\ lock' = lock /\ nextSeq' = nextSeq /\ now' = now
      BY <2>1 DEF Begin
    <3> QED
      BY <3>1, <3>2 DEF LockInv, SeqInv, TimeInv, TipInv, IsTip, ChainLinked,
                        Adjacent, Holding
  <2>2. ASSUME NEW w \in Writers, Lock(w) PROVE ChainInv'
    <3>1. \A v \in Writers : ws[v].pc \notin Holding
      BY <2>2 DEF Lock, LockInv
    <3>2. /\ lock' = {w} /\ ws'[w].pc = "locked"
          /\ \A v \in Writers \ {w} : ws'[v] = ws[v]
      BY <2>2 DEF Lock, TypeOK
    <3>3. \A v \in Writers : ws'[v].pc \notin {"tip", "inserted"}
      BY <3>1, <3>2 DEF Holding
    <3>4. LockInv'
      BY <3>1, <3>2 DEF LockInv
    <3>5. rows' = rows /\ nextSeq' = nextSeq /\ now' = now
      BY <2>2 DEF Lock
    <3> QED
      BY <3>3, <3>4, <3>5 DEF SeqInv, TimeInv, TipInv, ChainLinked, Adjacent
  <2>3. ASSUME NEW w \in Writers, ReadTip(w) PROVE ChainInv'
    <3>1. PICK prev \in {r.hash : r \in rows} \cup {Genesis},
               at \in (now - Skew)..now :
            /\ IF rows = {} THEN prev = Genesis
                            ELSE \E r \in rows : IsTip(r) /\ prev = r.hash
            /\ ws' = [ws EXCEPT ![w] = [pc |-> "tip", id |-> nextId,
                                        at |-> at, prev |-> prev]]
      BY <2>3 DEF ReadTip
    <3>2. lock = {w} /\ \A v \in Writers \ {w} : ws[v].pc \notin Holding
      BY <2>3 DEF ReadTip, LockInv, Holding
    <3>3. /\ ws'[w] = [pc |-> "tip", id |-> nextId, at |-> at, prev |-> prev]
          /\ \A v \in Writers \ {w} : ws'[v] = ws[v]
      BY <3>1 DEF TypeOK
    <3>4. /\ rows' = rows /\ lock' = lock /\ nextSeq' = nextSeq /\ now' = now
      BY <2>3 DEF ReadTip
    <3>5. LockInv'
      BY <3>2, <3>3, <3>4 DEF LockInv
    <3>6. SeqInv'
      BY <3>2, <3>3, <3>4 DEF SeqInv, Holding
    <3>7. TimeInv'
      <4>1. Skew = 0 => at = now
        BY DEF TypeOK
      <4> QED
        BY <3>2, <3>3, <3>4, <4>1 DEF TimeInv, Holding, TypeOK
    <3>8. TipInv'
      <4>1. \A r \in rows : IsTip(r) => r.hash = prev
        BY <3>1 DEF IsTip, SeqInv, TypeOK, RowType
      <4> QED
        BY <3>2, <3>3, <3>4, <4>1 DEF TipInv, IsTip, Holding
    <3>9. ChainLinked'
      BY <3>4 DEF ChainLinked, Adjacent
    <3> QED
      BY <3>5, <3>6, <3>7, <3>8, <3>9
  <2>4. ASSUME NEW w \in Writers, Insert(w) PROVE ChainInv'
    <3> DEFINE t == ws[w]
               row == [seq |-> nextSeq, id |-> t.id, at |-> t.at,
                       prev |-> t.prev,
                       hash |-> HashChain(t.prev, Canonical(t.id, t.at))]
    <3>1. lock = {w} /\ \A v \in Writers \ {w} : ws[v].pc \notin Holding
      BY <2>4 DEF Insert, LockInv, Holding
    <3>2. /\ ws'[w] = [pc |-> "inserted", row |-> row]
          /\ \A v \in Writers \ {w} : ws'[v] = ws[v]
      BY <2>4 DEF Insert, TypeOK
    <3>3. row.seq = nextSeq /\ row.at = ws[w].at /\ row.prev = ws[w].prev
      OBVIOUS
    <3>4. ws'[w].pc = "inserted" /\ ws'[w].row = row
      BY <3>2
    <3> HIDE DEF row
    <3>5. rows' = rows /\ lock' = lock /\ now' = now /\ nextSeq' = nextSeq + 1
      BY <2>4 DEF Insert
    <3>6. LockInv'
      BY <3>1, <3>2, <3>5 DEF LockInv
    <3>7. SeqInv'
      BY <3>1, <3>2, <3>3, <3>4, <3>5 DEF SeqInv, Holding, TypeOK, RowType
    <3>8. TimeInv'
      BY <2>4, <3>1, <3>2, <3>3, <3>4, <3>5 DEF TimeInv, Holding, Insert
    <3>9. TipInv'
      BY <2>4, <3>1, <3>2, <3>3, <3>4, <3>5 DEF TipInv, IsTip, Holding, Insert
    <3>10. ChainLinked'
      BY <3>5 DEF ChainLinked, Adjacent
    <3> QED
      BY <3>6, <3>7, <3>8, <3>9, <3>10
  <2>5. ASSUME NEW w \in Writers, Commit(w) PROVE ChainInv'
    <3> DEFINE new == ws[w].row
    <3>1. ws[w].pc = "inserted" /\ lock = {w}
          /\ \A v \in Writers \ {w} : ws[v].pc \notin Holding
      BY <2>5 DEF Commit, LockInv, Holding
    <3>2. /\ \A v \in Writers : ws'[v].pc \notin Holding
          /\ rows' = rows \cup {new} /\ nextSeq' = nextSeq /\ now' = now
      BY <2>5, <3>1 DEF Commit, Idle, Holding, TypeOK
    <3>3. new.seq < nextSeq /\ \A r \in rows : r.seq < new.seq
      BY <3>1 DEF SeqInv
    <3>4. /\ new.seq \in Nat /\ new.at \in Int /\ nextSeq \in Nat
          /\ \A r \in rows : r.seq \in Nat /\ r.at \in Int
      BY <3>1 DEF TypeOK, RowType, WriterState
    <3>5. LockInv'
      BY <3>2 DEF LockInv
    <3>6. SeqInv'
      BY <3>2, <3>3, <3>4 DEF SeqInv, Holding
    <3>7. TimeInv'
      BY <3>1, <3>2, <3>3, <3>4 DEF TimeInv, Holding
    <3>8. TipInv'
      BY <3>2 DEF TipInv, Holding
    <3>9. ChainLinked'
      <4> SUFFICES ASSUME NEW q \in rows', NEW r \in rows',
                          Adjacent(q, r)', Hashed(r)
                   PROVE  r.prev = q.hash
        BY DEF ChainLinked, Hashed
      <4>1. CASE r \in rows /\ q \in rows
        BY <4>1, <3>2 DEF ChainLinked, Adjacent
      <4>2. CASE q = new
        BY <4>2, <3>2, <3>3, <3>4 DEF Adjacent
      <4>3. CASE r = new /\ q \in rows
        <5>1. IsTip(q)
          BY <4>3, <3>2, <3>3, <3>4 DEF Adjacent, IsTip
        <5> QED
          BY <5>1, <4>3, <3>1 DEF TipInv
      <4> QED
        BY <4>1, <4>2, <4>3, <3>2
    <3> QED
      BY <3>5, <3>6, <3>7, <3>8, <3>9
  <2>6. ASSUME NEW w \in Writers, Rollback(w) PROVE ChainInv'
    <3>1. \A v \in Writers : ws'[v].pc \in Holding => v # w /\ ws'[v] = ws[v]
      BY <2>6 DEF Rollback, Idle, Holding, TypeOK
    <3>2. /\ rows' = rows /\ nextSeq' = nextSeq /\ now' = now
          /\ lock' = lock \ {w}
      BY <2>6 DEF Rollback
    <3>3. LockInv'
      BY <3>1, <3>2 DEF LockInv
    <3> QED
      BY <3>1, <3>2, <3>3 DEF SeqInv, TimeInv, TipInv, IsTip, ChainLinked,
                              Adjacent, Holding
  <2>7. ASSUME NEW k \in Keepers, Expunge(k) PROVE ChainInv'
    <3>1. Skew = 0
      BY <2>7
    <3> DEFINE time == ks[k].time
    <3>2. time \in Nat
      BY <2>7 DEF Expunge, TypeOK, KeeperState, Idle
    <3>3. /\ rows' = rows \ Stale(rows, time) /\ ws' = ws /\ lock' = lock
          /\ nextSeq' = nextSeq /\ now' = now
      BY <2>7 DEF Expunge
    <3>4. rows' \subseteq rows
      BY <3>3
    <3> HIDE DEF time
    <3>5. \A q \in rows', x \in rows : q.seq < x.seq => x \in rows'
      BY <3>1, <3>2, <3>3, <3>4, StaleIsPrefix
    <3>6. \A r \in rows : r.seq \in Nat
      BY DEF TypeOK, RowType
    <3>7. \A r \in rows' : IsTip(r)' => IsTip(r)
      BY <3>4, <3>5, <3>6 DEF IsTip
    <3>8. TipInv'
      BY <3>3, <3>4, <3>7 DEF TipInv
    <3>9. ChainLinked'
      BY <3>4, <3>5, <3>6 DEF ChainLinked, Adjacent, Hashed
    <3>10. LockInv' /\ SeqInv' /\ TimeInv'
      BY <3>3, <3>4 DEF LockInv, SeqInv, TimeInv, Holding
    <3> QED
      BY <3>8, <3>9, <3>10
  <2>8. ASSUME NEW k \in Keepers, Scan(k) \/ Archive(k) \/ GiveUp(k)
        PROVE ChainInv'
    <3>1. UNCHANGED <<rows, lock, ws, nextSeq, now>>
      BY <2>8 DEF Scan, Archive, GiveUp
    <3> QED
      BY <3>1 DEF LockInv, SeqInv, TimeInv, TipInv, IsTip, ChainLinked,
                  Adjacent, Holding
  <2>9. CASE Tick
    <3>1. UNCHANGED <<rows, lock, ws, nextSeq>> /\ now' = now + 1
      BY <2>9 DEF Tick
    <3>2. \A r \in rows : r.at \in Int
      BY DEF TypeOK, RowType
    <3>3. \A w \in Writers : /\ ws[w].pc = "tip" => ws[w].at \in Int
                             /\ ws[w].pc = "inserted" => ws[w].row.at \in Int
      BY DEF TypeOK, WriterState, RowType
    <3>4. TimeInv'
      BY <3>1, <3>2, <3>3 DEF TimeInv, TypeOK
    <3> QED
      BY <3>1, <3>4 DEF LockInv, SeqInv, TipInv, IsTip, ChainLinked, Adjacent,
                        Holding
  <2>10. CASE UNCHANGED vars
    BY <2>10 DEF vars, LockInv, SeqInv, TimeInv, TipInv, IsTip, ChainLinked,
                 Adjacent, Holding
  <2> QED
    BY <2>1, <2>2, <2>3, <2>4, <2>5, <2>6, <2>7, <2>8, <2>9, <2>10
       DEF Next, Record, Retain
<1> QED
  BY <1>1, <1>2, TypeCorrect, PTL DEF Spec

\* Rows that follow each other in chain_seq order are linked, on the same
\* conditions: no two rows were hashed on the same predecessor.
THEOREM ChainNeverForks ==
    ASSUME Skew = 0 \/ Keepers = {}
    PROVE  Spec => []ChainLinked
<1>1. ChainInv => ChainLinked
  BY DEF ChainInv
<1> QED
  BY <1>1, ChainKept, PTL

-----------------------------------------------------------------------------
(* The verification notices a removal and a forgery *)

\* hash_chain is collision-free, and no hash covers itself.
LEMMA HashChainInjective ==
    ASSUME NEW p \in Hashes, NEW q \in Hashes, NEW i \in Nat, NEW j \in Nat,
           NEW a \in Int, NEW b \in Int,
           HashChain(p, Canonical(i, a)) = HashChain(q, Canonical(j, b))
    PROVE  p = q /\ i = j /\ a = b
<1> DEFINE S == [id : Nat, at : Int]
           x == Canonical(i, a)
           y == Canonical(j, b)
<1>1. x \in S /\ y \in S /\ x.id = i /\ y.id = j /\ x.at = a /\ y.at = b
  BY DEF Canonical
<1>2. p \in Seq(S) /\ q \in Seq(S) /\ Append(p, x) = Append(q, y)
  BY DEF Hashes, HashChain
<1> HIDE DEF S, x, y
<1>3. /\ Len(Append(p, x)) = Len(p) + 1
      /\ \A n \in 1..Len(p) : Append(p, x)[n] = p[n]
      /\ Append(p, x)[Len(p) + 1] = x
  BY <1>1, <1>2, AppendProperties
<1>4. /\ Len(Append(q, y)) = Len(q) + 1
      /\ \A n \in 1..Len(q) : Append(q, y)[n] = q[n]
      /\ Append(q, y)[Len(q) + 1] = y
  BY <1>1, <1>2, AppendProperties
<1>5. Len(p) = Len(q) /\ x = y
  BY <1>2, <1>3, <1>4, LenProperties
<1>6. p = q
  BY <1>2, <1>3, <1>4, <1>5, SeqEqual
<1> QED
  BY <1>1, <1>5, <1>6

\* A row's hash is never the hash that it continues.
LEMMA HashCoversOthers ==
    ASSUME NEW p \in Hashes, NEW i \in Nat, NEW a \in Int
    PROVE  HashChain(p, Canonical(i, a)) # p
<1>1. Canonical(i, a) \in [id : Nat, at : Int]
  BY DEF Canonical
<1>2. p \in Seq([id : Nat, at : Int]) /\ Len(p) \in Nat
  BY LenProperties DEF Hashes
<1>3. Len(Append(p, Canonical(i, a))) = Len(p) + 1
  BY <1>1, <1>2, AppendProperties
<1> QED
  BY <1>2, <1>3 DEF HashChain

\* Of the rows of the log, the hashed ones come after the others.
OrderInv ==
    /\ LockInv
    /\ rows \subseteq logged
    /\ nextSeq > Legacy
    /\ \A r \in logged : r.seq < nextSeq /\ (Hashed(r) <=> r.seq > Legacy)
    /\ \A q, r \in logged : q.seq = r.seq => q = r
    /\ \A w \in Writers : ws[w].pc = "inserted" =>
         /\ Hashed(ws[w].row) /\ ws[w].row.hash = RowHash(ws[w].row)
         /\ ws[w].row.seq < nextSeq /\ ws[w].row.seq > Legacy
         /\ \A r \in logged : r.seq < ws[w].row.seq
    /\ \A r \in logged : Hashed(r) => r.hash = RowHash(r)

\* chain_seq orders whatever was logged, for any number of writers and servers
\* and whatever their clocks say.
THEOREM OrderKept == Spec => []OrderInv
<1>1. Init => OrderInv
  <2> SUFFICES ASSUME Init PROVE OrderInv
    OBVIOUS
  <2>1. \A r \in logged : \E i \in 1..Legacy : r = LegacyRow(i)
    BY DEF Init
  <2>2. \A w \in Writers : ws[w].pc = "idle"
    BY DEF Init, Idle
  <2>3. nextSeq = Legacy + 1 /\ Legacy \in Nat
    BY AuditAssumption DEF Init
  <2>4. \A r \in logged : r.seq \in 1..Legacy /\ ~Hashed(r)
    BY <2>1 DEF LegacyRow, Hashed
  <2>5. \A q, r \in logged : q.seq = r.seq => q = r
    BY <2>1 DEF LegacyRow
  <2> QED
    BY <2>2, <2>3, <2>4, <2>5 DEF OrderInv, LockInv, Holding, Init
<1>2. TypeOK /\ OrderInv /\ [Next]_vars => OrderInv'
  <2> SUFFICES ASSUME TypeOK, OrderInv, [Next]_vars PROVE OrderInv'
    OBVIOUS
  <2> USE DEF OrderInv
  <2>1. ASSUME NEW w \in Writers, Begin(w) \/ ReadTip(w) \/ Rollback(w)
        PROVE  OrderInv'
    <3>1. UNCHANGED <<rows, logged, nextSeq>>
      BY <2>1 DEF Begin, ReadTip, Rollback
    <3>2. /\ \A v \in Writers \ {w} : ws'[v] = ws[v]
          /\ ws'[w].pc \in {"idle", "waiting", "tip"}
          /\ ws'[w].pc = "tip" => ws[w].pc = "locked" /\ lock' = lock
          /\ lock' = lock \/ lock' = lock \ {w}
      BY <2>1 DEF Begin, ReadTip, Rollback, Idle, TypeOK
    <3>3. LockInv'
      BY <3>2 DEF LockInv, Holding
    <3> QED
      BY <3>1, <3>2, <3>3, Zenon DEF Hashed, RowHash
  <2>2. ASSUME NEW w \in Writers, Lock(w) PROVE OrderInv'
    <3>1. /\ lock' = {w} /\ ws'[w].pc = "locked"
          /\ \A v \in Writers \ {w} : ws'[v] = ws[v]
          /\ UNCHANGED <<rows, logged, nextSeq>>
      BY <2>2 DEF Lock, TypeOK
    <3>2. \A v \in Writers : ws[v].pc \notin Holding
      BY <2>2 DEF Lock, LockInv
    <3> QED
      BY <3>1, <3>2 DEF LockInv, Holding, Hashed, RowHash
  <2>3. ASSUME NEW w \in Writers, Insert(w) PROVE OrderInv'
    <3>1. PICK row \in RowType :
            /\ row.seq = nextSeq /\ row.hash = RowHash(row) /\ Hashed(row)
            /\ ws' = [ws EXCEPT ![w] = [pc |-> "inserted", row |-> row]]
      <4> DEFINE t == ws[w]
                 row == [seq |-> nextSeq, id |-> t.id, at |-> t.at,
                         prev |-> t.prev,
                         hash |-> HashChain(t.prev, Canonical(t.id, t.at))]
      <4>1. t.id \in Nat /\ t.at \in Int /\ t.prev \in Hashes
        BY <2>3 DEF Insert, WriterState, TypeOK
      <4>2. row \in RowType /\ row.hash # Genesis
        BY <4>1, HashChainType DEF RowType, TypeOK
      <4>3. row.hash = RowHash(row) /\ row.seq = nextSeq
        BY DEF RowHash
      <4>4. ws' = [ws EXCEPT ![w] = [pc |-> "inserted", row |-> row]]
        BY <2>3 DEF Insert
      <4> QED
        BY <4>2, <4>3, <4>4 DEF Hashed
    <3>2. /\ ws'[w].pc = "inserted" /\ ws'[w].row = row
          /\ \A v \in Writers \ {w} : ws'[v] = ws[v]
          /\ rows' = rows /\ logged' = logged /\ lock' = lock
          /\ nextSeq' = nextSeq + 1 /\ ws[w].pc = "tip"
      BY <2>3, <3>1 DEF Insert, TypeOK
    <3>3. lock = {w} /\ \A v \in Writers \ {w} : ws[v].pc \notin Holding
      BY <3>2 DEF LockInv, Holding
    <3>4. LockInv'
      BY <3>2, <3>3 DEF LockInv
    <3>5. nextSeq \in Nat /\ Legacy \in Nat /\ \A r \in logged : r.seq \in Nat
      BY AuditAssumption DEF TypeOK, RowType
    <3> QED
      BY <3>1, <3>2, <3>3, <3>4, <3>5 DEF Holding, Hashed, RowHash
  <2>4. ASSUME NEW w \in Writers, Commit(w) PROVE OrderInv'
    <3>1. PICK new \in RowType : new = ws[w].row
      BY <2>4 DEF Commit, TypeOK, WriterState
    <3>2. /\ ws[w].pc = "inserted" /\ lock = {w}
          /\ \A v \in Writers \ {w} : ws[v].pc \notin Holding
      BY <2>4 DEF Commit, LockInv, Holding
    <3>3. /\ \A v \in Writers : ws'[v].pc \notin Holding
          /\ rows' = rows \cup {new} /\ logged' = logged \cup {new}
          /\ nextSeq' = nextSeq
      BY <2>4, <3>1, <3>2 DEF Commit, Idle, Holding, TypeOK
    <3>4. LockInv'
      BY <3>3 DEF LockInv
    <3>5. /\ Hashed(new) /\ new.hash = RowHash(new)
          /\ new.seq < nextSeq /\ new.seq > Legacy
          /\ \A r \in logged : r.seq < new.seq
      BY <3>1, <3>2
    <3>6. new.seq \in Nat /\ \A r \in logged : r.seq \in Nat
      BY DEF TypeOK, RowType
    <3> QED
      BY <3>3, <3>4, <3>5, <3>6 DEF Holding, Hashed, RowHash
  <2>5. ASSUME NEW k \in Keepers, Retain(k) PROVE OrderInv'
    <3>1. UNCHANGED <<logged, lock, ws, nextSeq>> /\ rows' \subseteq rows
      BY <2>5 DEF Retain, Scan, Archive, Expunge, GiveUp
    <3> QED
      BY <3>1 DEF LockInv, Holding, Hashed, RowHash
  <2>6. CASE Tick \/ UNCHANGED vars
    <3>1. UNCHANGED <<logged, lock, ws, nextSeq, rows>>
      BY <2>6 DEF Tick, vars
    <3> QED
      BY <3>1 DEF LockInv, Holding, Hashed, RowHash
  <2> QED
    BY <2>1, <2>2, <2>3, <2>4, <2>5, <2>6 DEF Next, Record
<1> QED
  BY <1>1, <1>2, TypeCorrect, PTL DEF Spec

\* A set of numbers that is not empty has a smallest one.
LEMMA LeastElement ==
    ASSUME NEW S \in SUBSET Nat, S # {}
    PROVE  \E m \in S : \A n \in S : m <= n
<1>1. \E m \in S : \A n \in S : ~(<<n, m>> \in OpToRel(<, Nat))
  BY NatLessThanWellFounded, WFMin
<1>2. \A m, n \in Nat : n < m => <<n, m>> \in OpToRel(<, Nat)
  BY DEF OpToRel
<1>3. \E m \in S : \A n \in S : ~(n < m)
  BY <1>1, <1>2, Zenon
<1> QED
  BY <1>3

\* A removal from the middle or the front is noticed: the row that followed
\* was hashed over the row that is gone, and its hash is nobody else's.
THEOREM RemovalsDetected == Spec => []RemovalDetected
<1>1. TypeOK /\ OrderInv => RemovalDetected
  <2> SUFFICES ASSUME TypeOK, OrderInv, VerifyOk(rows), NEW r \in rows,
                      Hashed(r), ~IsTip(r), VerifyOk(rows \ {r})
               PROVE  FALSE
    BY DEF RemovalDetected
  <2>1. /\ \A x \in rows : x \in RowType /\ x.seq \in Nat
        /\ \A x, y \in rows : x.seq = y.seq => x = y
        /\ \A x \in rows : Hashed(x) <=> x.seq > Legacy
        /\ Legacy \in Nat
    BY AuditAssumption DEF OrderInv, TypeOK, RowType
  <2> DEFINE Later == {x \in rows : x.seq > r.seq}
             Seqs == {x.seq : x \in Later}
  <2>2. Seqs \in SUBSET Nat /\ Seqs # {}
    BY <2>1 DEF IsTip
  <2>3. PICK q \in Later : \A x \in Later : q.seq <= x.seq
    <3> HIDE DEF Seqs
    <3>1. \E m \in Seqs : \A n \in Seqs : m <= n
      BY <2>2, LeastElement
    <3> QED
      BY <3>1 DEF Seqs
  <2>4. q \in rows /\ Hashed(q) /\ q.seq > r.seq /\ q # r
    BY <2>1, <2>3
  <2>5. \A x \in rows : x.seq < q.seq => x.seq <= r.seq
    BY <2>1, <2>3
  <2> HIDE DEF Later, Seqs
  <2>6. IsHashedBefore(r, q, rows)
    BY <2>4, <2>5 DEF IsHashedBefore
  <2>7. q.prev = r.hash
    BY <2>4, <2>6 DEF VerifyOk, RowVerifies
  <2>8. r.hash = HashChain(r.prev, Canonical(r.id, r.at))
    BY DEF VerifyOk, RowVerifies, RowHash
  <2>9. CASE \A p \in rows \ {r} : ~IsHashedBefore(p, q, rows \ {r})
    <3>1. q.prev = Genesis
      BY <2>4, <2>9 DEF VerifyOk, RowVerifies
    <3> QED
      BY <3>1, <2>7 DEF Hashed
  <2>10. ASSUME NEW p \in rows \ {r}, IsHashedBefore(p, q, rows \ {r})
         PROVE  FALSE
    <3>1. q.prev = p.hash
      BY <2>4, <2>10 DEF VerifyOk, RowVerifies
    <3>2. p.seq < r.seq
      BY <2>1, <2>5, <2>10 DEF IsHashedBefore
    <3>3. IsHashedBefore(p, r, rows)
      BY <2>1, <2>4, <2>10, <3>2 DEF IsHashedBefore
    <3>4. r.prev = p.hash
      BY <3>3 DEF VerifyOk, RowVerifies
    <3>5. r.prev \in Hashes /\ r.id \in Nat /\ r.at \in Int
      BY <2>1 DEF RowType
    <3> QED
      BY <2>7, <2>8, <3>1, <3>4, <3>5, HashCoversOthers
  <2> QED
    BY <2>9, <2>10
<1> QED
  BY <1>1, TypeCorrect, OrderKept, PTL

\* Whatever stands in the place of a row that another row follows, under that
\* row's number: if the log still verifies, it is the row itself.
LEMMA OnlyTheRowItself ==
    ASSUME TypeOK, OrderInv, VerifyOk(rows), NEW r \in rows, Hashed(r), ~IsTip(r),
           NEW f \in RowType, f.seq = r.seq, VerifyOk((rows \ {r}) \cup {f})
    PROVE  f = r
<1> DEFINE S == (rows \ {r}) \cup {f}
<1>1. /\ \A x \in rows : x \in RowType /\ x.seq \in Nat
      /\ \A x, y \in rows : x.seq = y.seq => x = y
      /\ \A x \in rows : Hashed(x) <=> x.seq > Legacy
      /\ Legacy \in Nat
  BY AuditAssumption DEF OrderInv, TypeOK, RowType
<1> DEFINE Later == {x \in rows : x.seq > r.seq}
           Seqs == {x.seq : x \in Later}
<1>2. Seqs \in SUBSET Nat /\ Seqs # {}
  BY <1>1 DEF IsTip
<1>3. PICK q \in Later : \A x \in Later : q.seq <= x.seq
  <2> HIDE DEF Seqs
  <2>1. \E m \in Seqs : \A n \in Seqs : m <= n
    BY <1>2, LeastElement
  <2> QED
    BY <2>1 DEF Seqs
<1>4. q \in rows /\ Hashed(q) /\ q.seq > r.seq /\ q # r /\ q \in S
  BY <1>1, <1>3
<1>5. \A x \in rows : x.seq < q.seq => x.seq <= r.seq
  BY <1>1, <1>3
<1> HIDE DEF Later, Seqs
<1>6. q.prev = r.hash
  <2>1. IsHashedBefore(r, q, rows)
    BY <1>4, <1>5 DEF IsHashedBefore
  <2> QED
    BY <1>4, <2>1 DEF VerifyOk, RowVerifies
<1>7. r.hash = HashChain(r.prev, Canonical(r.id, r.at)) /\ r.hash # Genesis
  BY DEF VerifyOk, RowVerifies, RowHash, Hashed
<1>8. \A x \in S : x.seq < q.seq => x.seq <= f.seq
  BY <1>4, <1>5
<1>9. /\ r.prev \in Hashes /\ r.id \in Nat /\ r.at \in Int
      /\ f.prev \in Hashes /\ f.id \in Nat /\ f.at \in Int
  BY <1>1 DEF RowType
<1>10. CASE Hashed(f)
  <2>1. IsHashedBefore(f, q, S)
    BY <1>4, <1>8, <1>10 DEF IsHashedBefore
  <2>2. q.prev = f.hash
    BY <1>4, <2>1 DEF VerifyOk, RowVerifies
  <2>3. f.hash = HashChain(f.prev, Canonical(f.id, f.at))
    BY <1>10 DEF VerifyOk, RowVerifies, RowHash
  <2>4. f.prev = r.prev /\ f.id = r.id /\ f.at = r.at /\ f.hash = r.hash
    BY <1>6, <1>7, <1>9, <2>2, <2>3, HashChainInjective
  <2> QED
    BY <1>1, <2>4 DEF RowType
<1>11. CASE ~Hashed(f)
  <2>1. CASE \A p \in S : ~IsHashedBefore(p, q, S)
    <3>1. q.prev = Genesis
      BY <1>4, <2>1 DEF VerifyOk, RowVerifies
    <3> QED
      BY <3>1, <1>6, <1>7
  <2>2. ASSUME NEW p \in S, IsHashedBefore(p, q, S)
        PROVE  FALSE
    <3>1. q.prev = p.hash
      BY <1>4, <2>2 DEF VerifyOk, RowVerifies
    <3>2. p \in rows /\ p # r /\ Hashed(p) /\ p.seq < r.seq
      BY <1>1, <1>5, <1>11, <2>2 DEF IsHashedBefore
    <3>3. \A x \in rows : Hashed(x) /\ x.seq < r.seq => x.seq <= p.seq
      BY <1>1, <1>4, <2>2 DEF IsHashedBefore
    <3>4. IsHashedBefore(p, r, rows)
      BY <3>2, <3>3 DEF IsHashedBefore
    <3>5. r.prev = p.hash
      BY <3>2, <3>4 DEF VerifyOk, RowVerifies
    <3> QED
      BY <1>6, <1>7, <1>9, <3>1, <3>5, HashCoversOthers
  <2> QED
    BY <2>1, <2>2
<1> QED
  BY <1>10, <1>11

\* A row that another row follows cannot be replaced unnoticed, not even by one
\* with a link and a hash of its own that are in order.
THEOREM ForgeriesDetected == Spec => []ForgeryDetected
<1>1. TypeOK /\ OrderInv => ForgeryDetected
  <2> SUFFICES ASSUME TypeOK, OrderInv, VerifyOk(rows), NEW r \in rows,
                      Hashed(r), ~IsTip(r), NEW f \in Forgeries(r), f # r,
                      VerifyOk((rows \ {r}) \cup {f})
               PROVE  FALSE
    BY DEF ForgeryDetected
  <2>1. /\ r \in RowType
        /\ \A q \in rows : q.prev \in Hashes /\ q.hash \in Hashes
    BY DEF TypeOK, RowType
  <2>2. PICK at \in {r.at, r.at + 1},
             prev \in {Genesis} \cup {q.prev : q \in rows} \cup {q.hash : q \in rows} :
          \E h \in {r.hash, Genesis, HashChain(prev, Canonical(r.id, at))} :
            f = [seq |-> r.seq, id |-> r.id, at |-> at, prev |-> prev, hash |-> h]
    BY DEF Forgeries
  <2>3. /\ r.seq \in Nat /\ r.id \in Nat /\ r.hash \in Hashes
        /\ at \in Int /\ prev \in Hashes
    BY <2>1, GenesisType DEF RowType
  <2>4. PICK h \in {r.hash, Genesis, HashChain(prev, Canonical(r.id, at))} :
          f = [seq |-> r.seq, id |-> r.id, at |-> at, prev |-> prev, hash |-> h]
    BY <2>2
  <2>5. h \in Hashes
    BY <2>3, GenesisType, HashChainType
  <2>6. f \in RowType /\ f.seq = r.seq
    BY <2>3, <2>4, <2>5 DEF RowType
  <2> QED
    BY <2>6, OnlyTheRowItself
<1> QED
  BY <1>1, TypeCorrect, OrderKept, PTL

-----------------------------------------------------------------------------
(* The verification accepts a whole log *)

\* The tip that a writer read, or GENESIS.
ReadFrom(prev) ==
    \/ rows = {} /\ prev = Genesis
    \/ \E r \in rows : IsTip(r) /\ prev = r.hash

\* As long as nothing was deleted, the log verifies, and what the writer that
\* holds the lock has read is its tip.
WholeInv ==
    rows = logged =>
      /\ VerifyOk(rows)
      /\ \A w \in Writers :
           /\ ws[w].pc = "tip" => ReadFrom(ws[w].prev)
           /\ ws[w].pc = "inserted" => ReadFrom(ws[w].row.prev)

\* Before the retention deletes anything, the verification accepts the log,
\* for any number of writers, however their clocks differ.
THEOREM WholeLogAccepted == Spec => []WholeLogVerifies
<1>1. Init => WholeInv
  <2> SUFFICES ASSUME Init PROVE WholeInv
    OBVIOUS
  <2>1. \A r \in rows : ~Hashed(r)
    BY DEF Init, LegacyRow, Hashed
  <2>2. \A w \in Writers : ws[w].pc = "idle"
    BY DEF Init, Idle
  <2> QED
    BY <2>1, <2>2 DEF WholeInv, VerifyOk
<1>2. TypeOK /\ OrderInv /\ WholeInv /\ [Next]_vars => WholeInv'
  <2> SUFFICES ASSUME TypeOK, OrderInv, WholeInv, [Next]_vars, (rows = logged)'
               PROVE  /\ VerifyOk(rows')
                      /\ \A w \in Writers :
                           /\ ws'[w].pc = "tip" => ReadFrom(ws[w].prev)'
                           /\ ws'[w].pc = "inserted" => ReadFrom(ws[w].row.prev)'
    BY DEF WholeInv, VerifyOk, RowVerifies, RowHash, IsHashedBefore, Hashed
  <2> DEFINE Goal ==
        /\ VerifyOk(rows')
        /\ \A w \in Writers :
             /\ ws'[w].pc = "tip" => ReadFrom(ws[w].prev)'
             /\ ws'[w].pc = "inserted" => ReadFrom(ws[w].row.prev)'
  <2>1. ASSUME NEW w \in Writers, Begin(w) \/ Lock(w) \/ Rollback(w)
        PROVE  Goal
    <3>1. UNCHANGED <<rows, logged>>
      BY <2>1 DEF Begin, Lock, Rollback
    <3>2. /\ \A v \in Writers \ {w} : ws'[v] = ws[v]
          /\ ws'[w].pc \notin {"tip", "inserted"}
      BY <2>1 DEF Begin, Lock, Rollback, Idle, TypeOK
    <3> QED
      BY <3>1, <3>2 DEF WholeInv, ReadFrom, IsTip
  <2>2. ASSUME NEW w \in Writers, ReadTip(w) PROVE Goal
    <3>1. UNCHANGED <<rows, logged>>
      BY <2>2 DEF ReadTip
    <3>2. PICK prev \in {r.hash : r \in rows} \cup {Genesis},
               at \in (now - Skew)..now :
            /\ IF rows = {} THEN prev = Genesis
                            ELSE \E r \in rows : IsTip(r) /\ prev = r.hash
            /\ ws' = [ws EXCEPT ![w] = [pc |-> "tip", id |-> nextId,
                                        at |-> at, prev |-> prev]]
      BY <2>2 DEF ReadTip
    <3>3. /\ \A v \in Writers \ {w} : ws'[v] = ws[v]
          /\ ws'[w].pc = "tip" /\ ws'[w].prev = prev
      BY <3>2 DEF TypeOK
    <3>4. ReadFrom(prev)
      BY <3>2 DEF ReadFrom
    <3> QED
      BY <3>1, <3>3, <3>4 DEF WholeInv, ReadFrom, IsTip
  <2>3. ASSUME NEW w \in Writers, Insert(w) PROVE Goal
    <3>1. UNCHANGED <<rows, logged>> /\ ws[w].pc = "tip"
      BY <2>3 DEF Insert
    <3>2. /\ \A v \in Writers \ {w} : ws'[v] = ws[v]
          /\ ws'[w].pc = "inserted" /\ ws'[w].row.prev = ws[w].prev
      BY <2>3 DEF Insert, TypeOK
    <3> QED
      BY <3>1, <3>2 DEF WholeInv, ReadFrom, IsTip
  <2>4. ASSUME NEW w \in Writers, Commit(w) PROVE Goal
    <3>1. PICK new \in RowType : new = ws[w].row
      BY <2>4 DEF Commit, TypeOK, WriterState
    <3>2. /\ ws[w].pc = "inserted"
          /\ \A v \in Writers \ {w} : ws[v].pc \notin Holding
      BY <2>4 DEF Commit, OrderInv, LockInv, Holding
    <3>3. /\ \A v \in Writers : ws'[v].pc \notin {"tip", "inserted"}
          /\ rows' = rows \cup {new} /\ logged' = logged \cup {new}
      BY <2>4, <3>1, <3>2 DEF Commit, Idle, Holding, TypeOK
    <3>4. /\ Hashed(new) /\ new.hash = RowHash(new) /\ new.seq > Legacy
          /\ \A r \in logged : r.seq < new.seq
          /\ rows \subseteq logged
          /\ \A r \in logged : Hashed(r) <=> r.seq > Legacy
      BY <3>1, <3>2 DEF OrderInv
    <3>5. new.seq \in Nat /\ Legacy \in Nat /\ \A r \in logged : r.seq \in Nat
      BY AuditAssumption DEF TypeOK, RowType
    <3>6. rows = logged
      <4>1. rows \cup {new} = logged \cup {new}
        BY <3>3
      <4>2. new \notin logged
        BY <3>4, <3>5
      <4>3. ASSUME NEW r \in logged PROVE r \in rows
        BY <4>1, <4>2
      <4> QED
        BY <4>3, <3>4
    <3>7. VerifyOk(rows) /\ ReadFrom(new.prev)
      BY <3>1, <3>2, <3>6 DEF WholeInv
    <3>8. ASSUME NEW r \in rows, Hashed(r) PROVE RowVerifies(r, rows')
      <4>1. \A q \in rows' : IsHashedBefore(q, r, rows')
                               <=> q \in rows /\ IsHashedBefore(q, r, rows)
        BY <3>3, <3>4, <3>5, <3>6 DEF IsHashedBefore
      <4>2. RowVerifies(r, rows)
        BY <3>7, <3>8 DEF VerifyOk
      <4> QED
        BY <4>1, <4>2, <3>3 DEF RowVerifies
    <3>9. RowVerifies(new, rows')
      <4>1. ASSUME NEW q \in rows', IsHashedBefore(q, new, rows')
            PROVE  new.prev = q.hash
        <5>1. q \in rows /\ q.seq > Legacy
          BY <4>1, <3>3, <3>4, <3>5 DEF IsHashedBefore
        <5>2. \A x \in rows : x.seq <= q.seq
          BY <4>1, <5>1, <3>3, <3>4, <3>5 DEF IsHashedBefore
        <5>3. \A x \in rows : IsTip(x) => x = q
          BY <5>1, <5>2, <3>4, <3>5 DEF IsTip, OrderInv
        <5> QED
          BY <5>1, <5>3, <3>7 DEF ReadFrom
      <4>2. ASSUME \A q \in rows' : ~IsHashedBefore(q, new, rows')
            PROVE  new.prev = Genesis
        <5>1. ASSUME NEW t \in rows, IsTip(t), new.prev = t.hash
              PROVE  ~Hashed(t)
          BY <4>2, <5>1, <3>3, <3>4, <3>5 DEF IsHashedBefore, IsTip
        <5> QED
          BY <5>1, <3>7 DEF ReadFrom, Hashed
      <4> QED
        BY <3>4, <4>1, <4>2 DEF RowVerifies
    <3> QED
      BY <3>3, <3>8, <3>9 DEF VerifyOk
  <2>5. ASSUME NEW k \in Keepers, Retain(k) PROVE Goal
    <3>1. UNCHANGED <<logged, ws>> /\ rows' \subseteq rows
      BY <2>5 DEF Retain, Scan, Archive, Expunge, GiveUp
    <3>2. rows' = rows
      BY <3>1 DEF OrderInv
    <3> QED
      BY <3>1, <3>2 DEF WholeInv, ReadFrom, IsTip
  <2>6. CASE Tick \/ UNCHANGED vars
    <3>1. UNCHANGED <<rows, logged, ws>>
      BY <2>6 DEF Tick, vars
    <3> QED
      BY <3>1 DEF WholeInv, ReadFrom, IsTip
  <2> QED
    BY <2>1, <2>2, <2>3, <2>4, <2>5, <2>6 DEF Next, Record
<1>3. WholeInv => WholeLogVerifies
  BY DEF WholeInv, WholeLogVerifies
<1> QED
  BY <1>1, <1>2, <1>3, TypeCorrect, OrderKept, PTL DEF Spec

-----------------------------------------------------------------------------
(* Nothing is lost *)

\* An open transaction drew its time no longer than the retention ago, so that
\* its row will not be stale when it becomes visible.
OpenInv ==
    \A w \in Writers :
      /\ ws[w].pc = "tip" => now <= ws[w].at + Retention
      /\ ws[w].pc = "inserted" => now <= ws[w].row.at + Retention

\* A run of the retention has read, and before it deletes has archived,
\* whatever it is going to delete.
KeepInv ==
    \A k \in Keepers : ks[k].pc \in {"put", "delete"} =>
      /\ ks[k].time <= now
      /\ Stale(rows, ks[k].time) \subseteq ks[k].stale
      /\ ks[k].pc = "delete" =>
           \E a \in archive : /\ a[1] = ks[k].time
                              /\ Stale(rows, ks[k].time) \subseteq a[2]

\* A row that is gone is in an archive that no run can overwrite without it.
IsSafe(r) ==
    \E a \in archive :
      /\ r \in a[2] /\ a[1] <= now
      /\ Stale(rows, a[1]) = {}
      /\ \A k \in Keepers :
           ks[k].pc = "put" /\ ks[k].time = a[1] => r \in ks[k].stale

GoneInv == \A r \in logged \ rows : IsSafe(r)

SafeInv == OpenInv /\ KeepInv /\ GoneInv

\* For any number of writers and servers no row is lost, provided the clocks
\* differ by no more than the retention period and no two runs that read
\* different clocks write to the same archive.
LEMMA RowsKept ==
    ASSUME Skew <= Retention, TicksPerSecond = 1
    PROVE  Spec => []SafeInv
<1> USE DEF SafeInv
<1>1. Init => SafeInv
  BY DEF Init, OpenInv, KeepInv, GoneInv, Idle
<1>2. TypeOK /\ SafeInv /\ [Next]_vars => SafeInv'
  <2> SUFFICES ASSUME TypeOK, SafeInv, [Next]_vars PROVE SafeInv'
    OBVIOUS
  <2>a. Retention \in Nat /\ Skew \in Nat /\ now \in Nat
    BY AuditAssumption DEF TypeOK
  <2>b. \A time \in Nat : Second(time) = time
    BY DEF Second
  <2>c. \A r \in rows : r.at \in Int
    BY DEF TypeOK, RowType
  <2>1. ASSUME NEW w \in Writers, Begin(w) \/ Lock(w) \/ Rollback(w)
        PROVE  SafeInv'
    <3>1. UNCHANGED <<rows, archive, logged, ks, now>>
      BY <2>1 DEF Begin, Lock, Rollback
    <3>2. /\ \A v \in Writers \ {w} : ws'[v] = ws[v]
          /\ ws'[w].pc \notin {"tip", "inserted"}
      BY <2>1 DEF Begin, Lock, Rollback, Idle, TypeOK
    <3> QED
      BY <3>1, <3>2 DEF OpenInv, KeepInv, GoneInv, IsSafe, Stale
  <2>2. ASSUME NEW w \in Writers, ReadTip(w) PROVE SafeInv'
    <3>1. UNCHANGED <<rows, archive, logged, ks, now>>
      BY <2>2 DEF ReadTip
    <3>2. PICK prev \in {r.hash : r \in rows} \cup {Genesis},
               at \in (now - Skew)..now :
            ws' = [ws EXCEPT ![w] = [pc |-> "tip", id |-> nextId,
                                     at |-> at, prev |-> prev]]
      BY <2>2 DEF ReadTip
    <3>3. /\ \A v \in Writers \ {w} : ws'[v] = ws[v]
          /\ ws'[w].pc = "tip" /\ ws'[w].at = at
      BY <3>2 DEF TypeOK
    <3>4. now <= at + Retention
      BY <2>a
    <3>5. OpenInv'
      BY <3>1, <3>3, <3>4 DEF OpenInv
    <3> QED
      BY <3>1, <3>5 DEF KeepInv, GoneInv, IsSafe, Stale
  <2>3. ASSUME NEW w \in Writers, Insert(w) PROVE SafeInv'
    <3>1. UNCHANGED <<rows, archive, logged, ks, now>> /\ ws[w].pc = "tip"
      BY <2>3 DEF Insert
    <3>2. /\ \A v \in Writers \ {w} : ws'[v] = ws[v]
          /\ ws'[w].pc = "inserted" /\ ws'[w].row.at = ws[w].at
      BY <2>3 DEF Insert, TypeOK
    <3>3. OpenInv'
      BY <3>1, <3>2 DEF OpenInv
    <3> QED
      BY <3>1, <3>3 DEF KeepInv, GoneInv, IsSafe, Stale
  <2>4. ASSUME NEW w \in Writers, Commit(w) PROVE SafeInv'
    <3>1. PICK new \in RowType : new = ws[w].row
      BY <2>4 DEF Commit, TypeOK, WriterState
    <3>2. /\ rows' = rows \cup {new} /\ logged' = logged \cup {new}
          /\ UNCHANGED <<archive, ks, now>>
          /\ \A v \in Writers \ {w} : ws'[v] = ws[v]
          /\ ws'[w].pc = "idle" /\ now <= new.at + Retention
      BY <2>4, <3>1 DEF Commit, Idle, TypeOK, OpenInv
    <3>3. OpenInv'
      BY <3>2 DEF OpenInv
    <3>4. \A time \in Nat : time <= now => Stale(rows', time) = Stale(rows, time)
      <4>1. ASSUME NEW time \in Nat, time <= now
            PROVE  Stale(rows', time) = Stale(rows, time)
        <5>1. new.at \in Int /\ ~(new.at < time - Retention)
          BY <2>a, <3>2, <4>1 DEF RowType
        <5> QED
          BY <3>2, <5>1 DEF Stale
      <4> QED
        BY <4>1
    <3>5. KeepInv'
      <4>1. \A k \in Keepers : ks[k].pc \in {"put", "delete"} => ks[k].time \in Nat
        BY DEF TypeOK, KeeperState, Idle
      <4> QED
        BY <3>2, <3>4, <4>1 DEF KeepInv
    <3>6. GoneInv'
      <4> SUFFICES ASSUME NEW r \in logged' \ rows' PROVE IsSafe(r)'
        BY DEF GoneInv
      <4>1. r \in logged \ rows
        BY <3>2
      <4>2. PICK a \in archive :
              /\ r \in a[2] /\ a[1] <= now
              /\ Stale(rows, a[1]) = {}
              /\ \A k \in Keepers :
                   ks[k].pc = "put" /\ ks[k].time = a[1] => r \in ks[k].stale
        BY <4>1 DEF GoneInv, IsSafe
      <4>3. Stale(rows', a[1]) = {}
        BY <3>4, <4>2 DEF TypeOK
      <4> QED
        BY <3>2, <4>2, <4>3 DEF IsSafe
    <3> QED
      BY <3>3, <3>5, <3>6
  <2>5. ASSUME NEW k \in Keepers, Scan(k) PROVE SafeInv'
    <3>1. /\ UNCHANGED <<rows, archive, logged, ws, now>>
          /\ Stale(rows, now) # {}
          /\ ks' = [ks EXCEPT ![k] = [pc |-> "put", time |-> now,
                                      stale |-> Stale(rows, now)]]
      BY <2>5 DEF Scan
    <3>2. /\ ks'[k].pc = "put" /\ ks'[k].time = now
          /\ ks'[k].stale = Stale(rows, now)
          /\ \A j \in Keepers \ {k} : ks'[j] = ks[j]
      BY <3>1 DEF TypeOK
    <3>3. OpenInv'
      BY <3>1 DEF OpenInv
    <3>4. KeepInv'
      BY <2>a, <3>1, <3>2 DEF KeepInv
    <3>5. GoneInv'
      BY <3>1, <3>2 DEF GoneInv, IsSafe
    <3> QED
      BY <3>3, <3>4, <3>5
  <2>6. ASSUME NEW k \in Keepers, Archive(k) PROVE SafeInv'
    <3> DEFINE T == ks[k].time
               S == ks[k].stale
    <3>1. T \in Nat /\ ks[k].pc = "put"
      BY <2>6 DEF Archive, TypeOK, KeeperState, Idle
    <3>2. /\ archive' = {a \in archive : a[1] # T} \cup {<<T, S>>}
          /\ UNCHANGED <<rows, logged, ws, now>>
      BY <2>6, <2>b, <3>1 DEF Archive
    <3>3. /\ ks'[k].pc = "delete" /\ ks'[k].time = T /\ ks'[k].stale = S
          /\ \A j \in Keepers \ {k} : ks'[j] = ks[j]
      BY <2>6, <3>1 DEF Archive, TypeOK, KeeperState, Idle
    <3>4. T <= now /\ Stale(rows, T) \subseteq S
      BY <3>1 DEF KeepInv
    <3>5. PICK new \in archive' : new[1] = T /\ new[2] = S
      <4>1. <<T, S>> \in archive'
        BY <3>2
      <4>2. <<T, S>>[1] = T /\ <<T, S>>[2] = S
        OBVIOUS
      <4> HIDE DEF T, S
      <4> QED
        BY <4>1, <4>2
    <3>6. OpenInv'
      BY <3>2 DEF OpenInv
    <3>7. KeepInv'
      <4> SUFFICES ASSUME NEW j \in Keepers, ks'[j].pc \in {"put", "delete"}
                   PROVE  /\ ks'[j].time <= now
                          /\ Stale(rows, ks'[j].time) \subseteq ks'[j].stale
                          /\ ks'[j].pc = "delete" =>
                               \E a \in archive' :
                                  /\ a[1] = ks'[j].time
                                  /\ Stale(rows, ks'[j].time) \subseteq a[2]
        BY <3>2 DEF KeepInv
      <4>1. CASE j = k
        BY <4>1, <3>3, <3>4, <3>5
      <4>2. CASE j # k /\ ks[j].time = T
        BY <4>2, <3>3, <3>4, <3>5 DEF KeepInv
      <4>3. CASE j # k /\ ks[j].time # T
        <5>1. ks'[j] = ks[j]
          BY <4>3, <3>3
        <5>2. \A a \in archive : a[1] # T => a \in archive'
          BY <3>2
        <5> QED
          BY <4>3, <5>1, <5>2 DEF KeepInv
      <4> QED
        BY <4>1, <4>2, <4>3
    <3>8. GoneInv'
      <4> SUFFICES ASSUME NEW r \in logged \ rows PROVE IsSafe(r)'
        BY <3>2 DEF GoneInv
      <4>1. PICK a \in archive :
              /\ r \in a[2] /\ a[1] <= now
              /\ Stale(rows, a[1]) = {}
              /\ \A j \in Keepers :
                   ks[j].pc = "put" /\ ks[j].time = a[1] => r \in ks[j].stale
        BY DEF GoneInv, IsSafe
      <4>2. CASE a[1] = T
        <5>1. r \in S
          BY <4>1, <4>2, <3>1
        <5> QED
          BY <4>1, <4>2, <5>1, <3>2, <3>3, <3>5 DEF IsSafe
      <4>3. CASE a[1] # T
        <5>1. a \in archive'
          BY <4>3, <3>2
        <5> QED
          BY <4>1, <5>1, <3>2, <3>3 DEF IsSafe
      <4> QED
        BY <4>2, <4>3
    <3> QED
      BY <3>6, <3>7, <3>8
  <2>7. ASSUME NEW k \in Keepers, Expunge(k) PROVE SafeInv'
    <3>1. PICK T \in Nat : T = ks[k].time
      BY <2>7 DEF Expunge, TypeOK, KeeperState, Idle
    <3>2. /\ rows' = rows \ Stale(rows, T)
          /\ UNCHANGED <<archive, logged, ws, now>>
          /\ ks[k].pc = "delete" /\ ks'[k].pc = "idle"
          /\ \A j \in Keepers \ {k} : ks'[j] = ks[j]
      BY <2>7, <3>1 DEF Expunge, TypeOK, Idle
    <3>3. /\ rows' \subseteq rows
          /\ \A time : Stale(rows', time) \subseteq Stale(rows, time)
      BY <3>2 DEF Stale
    <3>4. OpenInv'
      BY <3>2 DEF OpenInv
    <3>5. KeepInv'
      <4> SUFFICES ASSUME NEW j \in Keepers, ks'[j].pc \in {"put", "delete"}
                   PROVE  /\ ks'[j].time <= now
                          /\ Stale(rows', ks'[j].time) \subseteq ks'[j].stale
                          /\ ks'[j].pc = "delete" =>
                               \E a \in archive :
                                  /\ a[1] = ks'[j].time
                                  /\ Stale(rows', ks'[j].time) \subseteq a[2]
        BY <3>2 DEF KeepInv
      <4>1. ks'[j] = ks[j]
        BY <3>2
      <4>2. Stale(rows', ks[j].time) \subseteq Stale(rows, ks[j].time)
        BY <3>3
      <4> QED
        BY <4>1, <4>2 DEF KeepInv
    <3>6. GoneInv'
      <4> SUFFICES ASSUME NEW r \in logged \ rows' PROVE IsSafe(r)'
        BY <3>2 DEF GoneInv
      <4>1. CASE r \in rows
        <5>1. r \in Stale(rows, T)
          BY <4>1, <3>2
        <5>2. PICK a \in archive : a[1] = T /\ Stale(rows, T) \subseteq a[2]
          BY <3>1, <3>2 DEF KeepInv
        <5>3. T <= now
          BY <3>1, <3>2 DEF KeepInv
        <5>4. Stale(rows', T) = {}
          BY <3>2 DEF Stale
        <5>5. \A j \in Keepers : ks'[j].pc = "put" /\ ks'[j].time = T
                                   => r \in ks'[j].stale
          <6>1. ASSUME NEW j \in Keepers, ks'[j].pc = "put", ks'[j].time = T
                PROVE  r \in ks'[j].stale
            <7>1. ks'[j] = ks[j]
              BY <6>1, <3>2
            <7> QED
              BY <6>1, <7>1, <5>1 DEF KeepInv
          <6> QED
            BY <6>1
        <5> QED
          BY <5>1, <5>2, <5>3, <5>4, <5>5, <3>2 DEF IsSafe
      <4>2. CASE r \notin rows
        <5>1. PICK a \in archive :
                /\ r \in a[2] /\ a[1] <= now
                /\ Stale(rows, a[1]) = {}
                /\ \A j \in Keepers :
                     ks[j].pc = "put" /\ ks[j].time = a[1] => r \in ks[j].stale
          BY <4>2 DEF GoneInv, IsSafe
        <5>2. Stale(rows', a[1]) = {}
          BY <5>1, <3>3
        <5> QED
          BY <5>1, <5>2, <3>2 DEF IsSafe
      <4> QED
        BY <4>1, <4>2
    <3> QED
      BY <3>4, <3>5, <3>6
  <2>8. ASSUME NEW k \in Keepers, GiveUp(k) PROVE SafeInv'
    <3>1. /\ UNCHANGED <<rows, archive, logged, ws, now>>
          /\ ks'[k].pc = "idle" /\ \A j \in Keepers \ {k} : ks'[j] = ks[j]
      BY <2>8 DEF GiveUp, TypeOK, Idle
    <3> QED
      BY <3>1 DEF OpenInv, KeepInv, GoneInv, IsSafe
  <2>9. CASE Tick
    <3>1. UNCHANGED <<rows, archive, logged, ws, ks>> /\ now' = now + 1
      BY <2>9 DEF Tick
    <3>2. \A w \in Writers : now < Drawn(w) + Retention
      BY <2>9 DEF Tick
    <3>3. \A w \in Writers : /\ ws[w].pc = "tip" => ws[w].at \in Int
                             /\ ws[w].pc = "inserted" => ws[w].row.at \in Int
      BY DEF TypeOK, WriterState, RowType
    <3>4. OpenInv'
      BY <2>a, <3>1, <3>2, <3>3 DEF OpenInv, Drawn
    <3>5. KeepInv'
      <4>1. \A k \in Keepers : ks[k].pc \in {"put", "delete"} => ks[k].time \in Nat
        BY DEF TypeOK, KeeperState, Idle
      <4> QED
        BY <2>a, <3>1, <4>1 DEF KeepInv, Stale
    <3>6. GoneInv'
      <4>1. \A a \in archive : a[1] \in Nat
        BY DEF TypeOK
      <4> QED
        BY <2>a, <3>1, <4>1 DEF GoneInv, IsSafe, Stale
    <3> QED
      BY <3>4, <3>5, <3>6
  <2>10. CASE UNCHANGED vars
    BY <2>10 DEF vars, OpenInv, KeepInv, GoneInv, IsSafe, Stale
  <2> QED
    BY <2>1, <2>2, <2>3, <2>4, <2>5, <2>6, <2>7, <2>8, <2>9, <2>10
       DEF Next, Record, Retain
<1> QED
  BY <1>1, <1>2, TypeCorrect, PTL DEF Spec

\* The retention deletes what it has archived and nothing else, and no archive
\* it writes destroys an earlier one.
THEOREM NothingIsLost ==
    ASSUME Skew <= Retention, TicksPerSecond = 1
    PROVE  Spec => []NothingLost
<1>1. SafeInv => NothingLost
  BY DEF SafeInv, GoneInv, IsSafe, NothingLost
<1> QED
  BY <1>1, RowsKept, PTL

-----------------------------------------------------------------------------
(* The chain implements a linked log *)

\* Archives, and what a run of the retention holds, are rows that were logged.
ArchivedInv ==
    /\ rows \subseteq logged
    /\ \A a \in archive : a[2] \subseteq logged
    /\ \A k \in Keepers : ks[k].pc \in {"put", "delete"} => ks[k].stale \subseteq logged

\* What is in an archive has been a row.
LEMMA ArchivedKept == Spec => []ArchivedInv
<1>1. Init => ArchivedInv
  BY DEF Init, ArchivedInv, Idle
<1>2. TypeOK /\ ArchivedInv /\ [Next]_vars => ArchivedInv'
  <2> SUFFICES ASSUME TypeOK, ArchivedInv, [Next]_vars PROVE ArchivedInv'
    OBVIOUS
  <2> USE DEF ArchivedInv
  <2>1. ASSUME NEW w \in Writers, Record(w) PROVE ArchivedInv'
    <3>1. UNCHANGED <<archive, ks>>
      BY <2>1 DEF Record, Begin, Lock, ReadTip, Insert, Commit, Rollback
    <3>2. logged \subseteq logged' /\ rows' \subseteq logged'
      BY <2>1 DEF Record, Begin, Lock, ReadTip, Insert, Commit, Rollback
    <3> QED
      BY <3>1, <3>2
  <2>2. ASSUME NEW k \in Keepers, Scan(k) PROVE ArchivedInv'
    BY <2>2 DEF Scan, Stale, TypeOK
  <2>3. ASSUME NEW k \in Keepers, Archive(k) PROVE ArchivedInv'
    <3>1. /\ UNCHANGED <<rows, logged>>
          /\ \A a \in archive' : a \in archive
                \/ a = <<Second(ks[k].time), ks[k].stale>>
          /\ ks[k].stale \subseteq logged
      BY <2>3 DEF Archive
    <3>2. \A j \in Keepers : /\ ks'[j].stale = ks[j].stale
                             /\ ks'[j].pc \in {"put", "delete"}
                                  => ks[j].pc \in {"put", "delete"}
      BY <2>3 DEF Archive, TypeOK, KeeperState, Idle
    <3> QED
      BY <3>1, <3>2
  <2>4. ASSUME NEW k \in Keepers, Expunge(k) \/ GiveUp(k) PROVE ArchivedInv'
    <3>1. UNCHANGED <<archive, logged>> /\ rows' \subseteq rows
      BY <2>4 DEF Expunge, GiveUp
    <3>2. /\ ks'[k].pc = "idle"
          /\ \A j \in Keepers \ {k} : ks'[j] = ks[j]
      BY <2>4 DEF Expunge, GiveUp, Idle, TypeOK
    <3> QED
      BY <3>1, <3>2
  <2>5. CASE Tick \/ UNCHANGED vars
    BY <2>5 DEF Tick, vars
  <2> QED
    BY <2>1, <2>2, <2>3, <2>4, <2>5 DEF Next, Retain
<1> QED
  BY <1>1, <1>2, TypeCorrect, PTL DEF Spec

\* With clocks that agree the audit log, its lock, its transactions and its
\* retention implement a log that grows linked at its end and is cut, after
\* the export, at its beginning.
THEOREM Implements ==
    ASSUME Skew = 0, TicksPerSecond = 1
    PROVE  Spec => ImplementsLinkedLog
<1> DEFINE Safe == UNION {a[2] : a \in archive}
           Inv == TypeOK /\ ChainInv /\ SafeInv /\ ArchivedInv
<1>1. Init => Log!LogInit
  <2> SUFFICES ASSUME Init PROVE Log!LogInit
    OBVIOUS
  <2>1. \A r \in rows : r.prev = Genesis /\ r.hash = Genesis
    BY DEF Init, LegacyRow
  <2>2. Safe = {}
    BY DEF Init
  <2> QED
    BY <2>1, <2>2 DEF Log!LogInit, Log!Linked, Log!Follows
<1>2. Inv /\ [Next]_vars => [Log!LogNext]_<<rows, Safe>>
  <2> SUFFICES ASSUME Inv, [Next]_vars
               PROVE  Log!LogNext \/ UNCHANGED <<rows, Safe>>
    OBVIOUS
  <2>1. ASSUME NEW w \in Writers, Commit(w) PROVE Log!LogNext
    <3>1. PICK new \in RowType : new = ws[w].row
      BY <2>1 DEF Commit, TypeOK, WriterState
    <3>2. rows' = rows \cup {new} /\ archive' = archive
      BY <2>1, <3>1 DEF Commit
    <3>3. \A q \in rows : q.seq < new.seq
      BY <2>1, <3>1 DEF Commit, ChainInv, SeqInv
    <3>4. \A q \in rows : (\A x \in rows : x.seq <= q.seq) => new.prev = q.hash
      BY <2>1, <3>1 DEF Commit, ChainInv, TipInv, IsTip
    <3>5. Safe' = Safe
      BY <3>2
    <3> HIDE DEF Safe
    <3>6. Log!Grow
      BY <3>2, <3>3, <3>4, <3>5 DEF Log!Grow, Safe
    <3> QED
      BY <3>6 DEF Log!LogNext
  <2>2. ASSUME NEW k \in Keepers, Archive(k) PROVE Log!LogNext
    <3>1. ks[k].pc = "put" /\ ks[k].time \in Nat
      BY <2>2 DEF Archive, TypeOK, KeeperState, Idle
    <3>2. Second(ks[k].time) = ks[k].time
      BY <3>1 DEF Second
    <3>3. /\ rows' = rows
          /\ archive' = {a \in archive : a[1] # ks[k].time}
                          \cup {<<ks[k].time, ks[k].stale>>}
      BY <2>2, <3>2 DEF Archive
    <3>4. PICK new \in archive' : new[2] = ks[k].stale
      <4>1. <<ks[k].time, ks[k].stale>> \in archive'
        BY <3>3
      <4>2. <<ks[k].time, ks[k].stale>>[2] = ks[k].stale
        OBVIOUS
      <4> QED
        BY <4>1, <4>2
    <3>5. ASSUME NEW r \in Safe, r \notin Safe' PROVE r \in rows
      <4> SUFFICES ASSUME r \notin rows PROVE FALSE
        OBVIOUS
      <4>1. r \in logged
        BY DEF ArchivedInv
      <4>2. IsSafe(r)
        BY <4>1 DEF SafeInv, GoneInv
      <4>3. PICK a \in archive :
              /\ r \in a[2]
              /\ ks[k].pc = "put" /\ ks[k].time = a[1] => r \in ks[k].stale
        BY <4>2 DEF IsSafe
      <4>4. CASE a[1] = ks[k].time
        <5>1. r \in new[2]
          BY <4>3, <4>4, <3>1, <3>4
        <5> QED
          BY <3>5, <5>1
      <4>5. CASE a[1] # ks[k].time
        <5>1. a \in archive'
          BY <4>5, <3>3
        <5> QED
          BY <3>5, <4>3, <5>1
      <4> QED
        BY <4>4, <4>5
    <3>6. Log!Export
      BY <3>3, <3>5 DEF Log!Export
    <3> QED
      BY <3>6 DEF Log!LogNext
  <2>3. ASSUME NEW k \in Keepers, Expunge(k) PROVE Log!LogNext
    <3>1. PICK T \in Nat : T = ks[k].time
      BY <2>3 DEF Expunge, TypeOK, KeeperState, Idle
    <3>2. /\ rows' = rows \ Stale(rows, T) /\ archive' = archive
          /\ ks[k].pc = "delete"
      BY <2>3, <3>1 DEF Expunge
    <3>3. PICK a \in archive : Stale(rows, T) \subseteq a[2]
      BY <3>1, <3>2 DEF SafeInv, KeepInv
    <3>4. rows \ rows' \subseteq Safe
      BY <3>2, <3>3
    <3>5. ASSUME NEW q \in rows \ rows', NEW r \in rows' PROVE q.seq < r.seq
      <4>1. q \in rows /\ r \in rows /\ r \in rows \ Stale(rows, T)
            /\ q \notin rows \ Stale(rows, T)
        BY <3>2
      <4>2. q.seq \in Nat /\ r.seq \in Nat
        BY <4>1 DEF TypeOK, RowType
      <4>3. q.seq # r.seq
        BY <4>1 DEF ChainInv, SeqInv
      <4>4. ~(r.seq < q.seq)
        BY <4>1, StaleIsPrefix DEF ChainInv
      <4> QED
        BY <4>2, <4>3, <4>4
    <3>6. rows' \subseteq rows /\ Safe' = Safe
      BY <3>2
    <3>7. Log!Cut
      BY <3>4, <3>5, <3>6 DEF Log!Cut
    <3> QED
      BY <3>7 DEF Log!LogNext
  <2>4. ASSUME NEW w \in Writers,
               Begin(w) \/ Lock(w) \/ ReadTip(w) \/ Insert(w) \/ Rollback(w)
        PROVE  UNCHANGED <<rows, Safe>>
    <3>1. UNCHANGED <<rows, archive>>
      BY <2>4 DEF Begin, Lock, ReadTip, Insert, Rollback
    <3> QED
      BY <3>1
  <2>5. ASSUME (\E k \in Keepers : Scan(k) \/ GiveUp(k)) \/ Tick \/ UNCHANGED vars
        PROVE  UNCHANGED <<rows, Safe>>
    <3>1. UNCHANGED <<rows, archive>>
      BY <2>5 DEF Scan, GiveUp, Tick, vars
    <3> QED
      BY <3>1
  <2> QED
    BY <2>1, <2>2, <2>3, <2>4, <2>5 DEF Next, Record, Retain
<1>3. Spec => []ChainInv
  BY ChainKept
<1>4. Spec => []SafeInv
  BY AuditAssumption, RowsKept
<1> QED
  BY <1>1, <1>2, <1>3, <1>4, TypeCorrect, ArchivedKept, PTL
  DEF Spec, ImplementsLinkedLog, Log!LogSpec, Log!logVars
==============================================================================
