--------------------------- MODULE AuditChainProofs ---------------------------
(***************************************************************************)
(* Retention and the chain, for any number of writers, records and purges, *)
(* on either database: nothing younger than the retention period is ever   *)
(* lost, a log that was written one operation at a time verifies, a purge  *)
(* that no append overlaps repairs any log, and no append ever does.       *)
(***************************************************************************)
EXTENDS AuditChain, FiniteSetTheorems, TLAPS

Shape ==
  /\ DOMAIN pc = Process
  /\ DOMAIN snapshot = Process
  /\ DOMAIN link = Process

\* Time stamps are numbers, and cutoffs only rise
Stamps ==
  /\ clock \in Int /\ cutoff \in Int /\ purged \in Int
  /\ purged <= cutoff /\ cutoff <= clock - Retention
  /\ \A p \in Process : link[p].ts \in Int
  /\ \A e \in written : e.ts \in Int

\* What a purge has read was recorded
ReadRecords == pc[Scheduler] = "purge" => \A r \in snapshot[Scheduler] : Entry(r) \in written

RetentionInv == Shape /\ Stamps /\ ReadRecords /\ RecordsKept

\* Rehashing and renumbering keep what every kept row says, and add nothing.
LEMMA RebuiltEntries ==
  ASSUME NEW rows, NEW order \in Orders(rows)
  PROVE  /\ \A r \in rows : \E q \in Rebuilt(order) : Entry(q) = Entry(r)
         /\ \A q \in Rebuilt(order) : \E r \in rows : Entry(q) = Entry(r)
<1>1. order \in [1..Cardinality(rows) -> rows]
  BY DEF Orders
<1>2. ASSUME NEW r \in rows
      PROVE  \E q \in Rebuilt(order) : Entry(q) = Entry(r)
  <2>1. PICK i \in DOMAIN order : order[i] = r
    BY DEF Orders
  <2>2. RebuiltRow(order, i) \in Rebuilt(order)
    BY DEF Rebuilt
  <2>3. Entry(RebuiltRow(order, i)) = Entry(r)
    BY <2>1 DEF Entry, RebuiltRow
  <2> QED BY <2>2, <2>3
<1>3. ASSUME NEW q \in Rebuilt(order)
      PROVE  \E r \in rows : Entry(q) = Entry(r)
  <2>1. PICK i \in DOMAIN order : q = RebuiltRow(order, i)
    BY DEF Rebuilt
  <2>2. order[i] \in rows
    BY <1>1, <2>1
  <2>3. Entry(q) = Entry(order[i])
    BY <2>1 DEF Entry, RebuiltRow
  <2> QED BY <2>2, <2>3
<1> QED BY <1>2, <1>3

LEMMA RetentionInit ==
  ASSUME Init
  PROVE  RetentionInv
<1>1. Shape
  BY DEF Init, Shape
<1>2. Stamps
  BY AuditAssumption, SMT DEF Init, Stamps, AuditAssumption, NoLink
<1>3. ReadRecords
  BY DEF Init, ReadRecords, Process
<1>4. RecordsKept
  BY DEF Init, RecordsKept
<1> QED BY <1>1, <1>2, <1>3, <1>4 DEF RetentionInv

\* The steps that leave the log and the records alone.
LEMMA QuietStep ==
  ASSUME RetentionInv, UNCHANGED <<log, written, purged>>
  PROVE  RecordsKept'
BY DEF RetentionInv, RecordsKept, Entry

LEMMA RecordStep ==
  ASSUME RetentionInv, NEW p \in Process, record(p)
  PROVE  RetentionInv'
<1>0. Scheduler \in Process /\ Shape /\ Stamps /\ ReadRecords /\ RecordsKept
  BY DEF Process, RetentionInv
<1>1. CASE read_tail(p)
  <2>1. Shape'
    BY <1>0, <1>1 DEF read_tail, Shape
  <2>2. Stamps'
    BY <1>0, <1>1 DEF read_tail, Stamps, Shape, Genesis, After
  <2>3. ReadRecords'
    BY <1>0, <1>1 DEF read_tail, CallsRecord, ReadRecords, Shape, Entry
  <2>4. RecordsKept'
    BY <1>1, QuietStep DEF read_tail
  <2> QED BY <2>1, <2>2, <2>3, <2>4 DEF RetentionInv
<1>2. CASE select_tail(p)
  <2>1. Shape'
    BY <1>0, <1>2 DEF select_tail, Shape
  <2>2. Stamps'
    BY <1>0, <1>2 DEF select_tail, Stamps, Shape
  <2>3. ReadRecords'
    BY <1>0, <1>2 DEF select_tail, CallsRecord, ReadRecords, Shape, Entry
  <2>4. RecordsKept'
    BY <1>2, QuietStep DEF select_tail
  <2> QED BY <2>1, <2>2, <2>3, <2>4 DEF RetentionInv
<1>3. CASE lock_tail(p)
  <2>1. Shape'
    BY <1>0, <1>3 DEF lock_tail, Shape
  <2>2. Stamps'
    BY <1>0, <1>3 DEF lock_tail, Stamps, Shape, Genesis, After
  <2>3. ReadRecords'
    BY <1>0, <1>3 DEF lock_tail, ReadRecords, Shape, Entry
  <2>4. RecordsKept'
    BY <1>3, QuietStep DEF lock_tail
  <2> QED BY <2>1, <2>2, <2>3, <2>4 DEF RetentionInv
<1>4. CASE insert_record(p)
  <2>1. Shape'
    BY <1>0, <1>4 DEF insert_record, Shape
  <2>2. Stamps'
    BY <1>0, <1>4 DEF insert_record, Stamps, Shape, NoLink, Entry, NewRow
  <2>3. ReadRecords'
    BY <1>0, <1>4 DEF insert_record, ReadRecords, Shape, Entry
  <2>4. log' = log \cup {NewRow(p)} /\ written' = written \cup {Entry(NewRow(p))}
        /\ purged' = purged
    BY <1>4 DEF insert_record
  <2>5. RecordsKept'
    BY <1>0, <2>4 DEF RecordsKept, Entry
  <2> QED BY <2>1, <2>2, <2>3, <2>5 DEF RetentionInv
<1> QED BY <1>1, <1>2, <1>3, <1>4 DEF record

LEMMA PurgeStep ==
  ASSUME RetentionInv, purge_commits
  PROVE  RetentionInv'
<1>0. Scheduler \in Process /\ Shape /\ Stamps /\ ReadRecords /\ RecordsKept
  BY DEF Process, RetentionInv
<1>1. PICK order \in Orders(Kept(snapshot[Scheduler])) :
        log' = (log \ snapshot[Scheduler]) \cup Rebuilt(order)
  BY DEF purge_commits
<1>2. /\ \A r \in Kept(snapshot[Scheduler]) : \E q \in Rebuilt(order) : Entry(q) = Entry(r)
      /\ \A q \in Rebuilt(order) : \E r \in Kept(snapshot[Scheduler]) : Entry(q) = Entry(r)
  BY <1>1, RebuiltEntries
<1>3. /\ pc[Scheduler] = "purge"
      /\ written' = written /\ purged' = cutoff
  BY DEF purge_commits
<1>4. ASSUME NEW e \in written', e.ts >= purged'
      PROVE  \E r \in log' : Entry(r) = e
  <2>1. e \in written /\ e.ts >= cutoff
    BY <1>3, <1>4
  <2>2. e.ts >= purged
    BY <1>0, <2>1 DEF Stamps
  <2>3. PICK r \in log : Entry(r) = e
    BY <1>0, <2>1, <2>2 DEF RecordsKept
  <2>4. CASE r \in snapshot[Scheduler]
    <3>1. r \in Kept(snapshot[Scheduler])
      BY <2>1, <2>3, <2>4 DEF Kept, Entry
    <3> QED BY <1>1, <1>2, <2>3, <3>1
  <2>5. CASE r \notin snapshot[Scheduler]
    BY <1>1, <2>3, <2>5
  <2> QED BY <2>4, <2>5
<1>5. ASSUME NEW q \in log'
      PROVE  Entry(q) \in written'
  <2>1. \A r \in snapshot[Scheduler] : Entry(r) \in written
    BY <1>0, <1>3 DEF ReadRecords
  <2>2. CASE q \in log
    BY <1>0, <1>3, <2>2 DEF RecordsKept
  <2>3. CASE q \in Rebuilt(order)
    BY <1>2, <1>3, <2>1, <2>3 DEF Kept
  <2> QED BY <1>1, <2>2, <2>3
<1>6. RecordsKept'
  BY <1>4, <1>5 DEF RecordsKept, Entry
<1>7. Shape' /\ ReadRecords'
  BY <1>0 DEF purge_commits, Shape, ReadRecords
<1>8. Stamps'
  BY <1>0 DEF purge_commits, Stamps
<1> QED BY <1>6, <1>7, <1>8 DEF RetentionInv

LEMMA RetentionStep ==
  ASSUME RetentionInv, [Next]_auditVars
  PROVE  RetentionInv'
<1>0. Scheduler \in Process /\ Shape /\ Stamps /\ ReadRecords /\ RecordsKept
  BY DEF Process, RetentionInv
<1>1. CASE Tick
  <2>1. Shape' /\ ReadRecords'
    BY <1>0, <1>1 DEF Tick, Shape, ReadRecords, Entry
  <2>2. Stamps'
    BY <1>0, <1>1, AuditAssumption DEF Tick, Stamps, AuditAssumption
  <2>3. RecordsKept'
    BY <1>1, QuietStep DEF Tick
  <2> QED BY <2>1, <2>2, <2>3 DEF RetentionInv
<1>2. CASE purge_reads
  <2>1. Shape'
    BY <1>0, <1>2 DEF purge_reads, Shape
  <2>2. ReadRecords'
    BY <1>0, <1>2 DEF purge_reads, ReadRecords, RecordsKept, Shape, Entry
  <2>3. Stamps'
    BY <1>0, <1>2, AuditAssumption DEF purge_reads, Stamps, AuditAssumption
  <2>4. RecordsKept'
    BY <1>2, QuietStep DEF purge_reads
  <2> QED BY <2>1, <2>2, <2>3, <2>4 DEF RetentionInv
<1>3. CASE purge_commits
  BY <1>3, PurgeStep
<1>4. CASE \E p \in Process : record(p)
  BY <1>4, RecordStep
<1>5. CASE UNCHANGED auditVars
  <2>1. Shape' /\ Stamps' /\ ReadRecords'
    BY <1>0, <1>5 DEF auditVars, Shape, Stamps, ReadRecords, Entry
  <2>2. RecordsKept'
    BY <1>5, QuietStep DEF auditVars
  <2> QED BY <2>1, <2>2 DEF RetentionInv
<1> QED BY <1>1, <1>2, <1>3, <1>4, <1>5 DEF Next, purge_before

\* Appends and purges, in any order and on either database, neither lose nor
\* alter a record younger than the retention period
\* (repositories.py:347-458).
THEOREM RetentionHolds == Spec => []RecordsKept
<1>1. Init => RetentionInv
  BY RetentionInit
<1>2. RetentionInv /\ [Next]_auditVars => RetentionInv'
  BY RetentionStep
<1>3. RetentionInv => RecordsKept
  BY DEF RetentionInv
<1> QED BY <1>1, <1>2, <1>3, PTL DEF Spec
-----------------------------------------------------------------------------
(* The rebuilt chain                                                       *)

\* Every set of natural numbers has a least element.
LEMMA LeastElement ==
  ASSUME NEW T \in SUBSET Nat, T # {}
  PROVE  \E x \in T : \A y \in T : x <= y
<1> DEFINE U == {1..k : k \in T}
           R == StrictSubsetOrdering(Nat)
<1>1. IsWellFoundedOn(R, FiniteSubsetsOf(Nat))
  BY FS_StrictSubsetOrderingWellFounded
<1>2. U \subseteq FiniteSubsetsOf(Nat) /\ U # {}
  <2>1. \A k \in T : IsFiniteSet(1..k) /\ 1..k \subseteq Nat
    BY FS_Interval
  <2> QED BY <2>1 DEF FiniteSubsetsOf
<1>3. \E x \in U : \A y \in U : ~ (<<y, x>> \in R)
  <2> HIDE DEF R, U
  <2> QED BY <1>1, <1>2, WFMin
<1>4. PICK m \in T : \A y \in U : ~ (<<y, 1..m>> \in R)
  BY <1>3
<1>5. ASSUME NEW k \in T PROVE m <= k
  <2> SUFFICES ASSUME k < m PROVE FALSE
    OBVIOUS
  <2>1. 1..k \subseteq 1..m /\ 1..k # 1..m /\ 1..m \subseteq Nat /\ 1..k \subseteq Nat
    <3>1. m \in 1..m /\ m \notin 1..k
      OBVIOUS
    <3> QED BY <3>1
  <2>2. <<1..k, 1..m>> \in R
    BY <2>1 DEF StrictSubsetOrdering
  <2> QED BY <1>4, <2>2
<1> QED BY <1>5
\* The chain of hashes over n rows, as far as the first k
Chain(order, k, f) ==
  f = [i \in {0} \cup 1..k |->
         IF i = 0 THEN GENESIS ELSE compute_hash(i, order[i].by, order[i].ts, f[i - 1])]

\* It exists for every number of rows: the least length without one has a
\* predecessor with one, which it extends.
LEMMA ChainExists ==
  ASSUME NEW n \in Nat, NEW order
  PROVE  \E f : Chain(order, n, f)
<1> DEFINE T == {k \in Nat : ~ \E f : Chain(order, k, f)}
<1> SUFFICES ASSUME T # {} PROVE FALSE
  OBVIOUS
<1>1. PICK m \in T : \A k \in T : m <= k
  BY LeastElement
<1>2. CASE m = 0
  <2> DEFINE f == [i \in {0} |-> GENESIS]
  <2>1. {0} \cup 1..m = {0}
    BY <1>2
  <2>2. Chain(order, m, f)
    BY <2>1 DEF Chain
  <2> QED BY <2>2
<1>3. CASE m # 0
  <2>1. PICK g : Chain(order, m - 1, g)
    BY <1>1, <1>3
  <2> DEFINE f == [i \in {0} \cup 1..m |->
                     IF i = m THEN compute_hash(i, order[i].by, order[i].ts, g[i - 1]) ELSE g[i]]
  <2>2. ASSUME NEW i \in {0} \cup 1..m
        PROVE  f[i] = IF i = 0 THEN GENESIS
                      ELSE compute_hash(i, order[i].by, order[i].ts, f[i - 1])
    <3>1. CASE i = m
      BY <1>3, <3>1
    <3>2. CASE i # m
      <4>1. i \in {0} \cup 1..(m - 1) /\ m \in Nat
        BY <3>2
      <4>2. f[i] = g[i] /\ (i # 0 => f[i - 1] = g[i - 1])
        BY <3>2, <4>1
      <4> HIDE DEF f
      <4> QED BY <2>1, <4>1, <4>2 DEF Chain
    <3> QED BY <3>1, <3>2
  <2>3. Chain(order, m, f)
    <3> HIDE DEF f
    <3>1. f = [i \in {0} \cup 1..m |-> f[i]]
      BY DEF f
    <3> QED BY <2>2, <3>1 DEF Chain
  <2> QED BY <2>3
<1> QED BY <1>2, <1>3

\* What the purge computes is that chain: each hash covers the one before.
LEMMA RehashedIs ==
  ASSUME NEW n \in Nat, NEW order, DOMAIN order = 1..n
  PROVE  /\ Rehashed(order)[0] = GENESIS
         /\ \A i \in 1..n : Rehashed(order)[i] =
                compute_hash(i, order[i].by, order[i].ts, Rehashed(order)[i - 1])
<1>1. \E f : Chain(order, n, f)
  BY ChainExists
<1>2. Rehashed(order) = CHOOSE f : Chain(order, n, f)
  BY DEF Rehashed, Chain
<1>3. Chain(order, n, Rehashed(order))
  BY <1>1, <1>2
<1> DEFINE f == Rehashed(order)
<1> HIDE DEF f
<1>4. f = [i \in {0} \cup 1..n |->
         IF i = 0 THEN GENESIS ELSE compute_hash(i, order[i].by, order[i].ts, f[i - 1])]
  BY <1>3 DEF Chain, f
<1>5. f[0] = GENESIS
  BY <1>4
<1>6. \A i \in 1..n : f[i] = compute_hash(i, order[i].by, order[i].ts, f[i - 1])
  BY <1>4
<1> QED BY <1>5, <1>6 DEF f

\* In the order a purge reads them, no row comes twice.
LEMMA OrdersInjective ==
  ASSUME NEW rows, IsFiniteSet(rows), NEW order \in Orders(rows),
         NEW i \in DOMAIN order, NEW j \in DOMAIN order, order[i] = order[j]
  PROVE  i = j
<1>1. Cardinality(rows) \in Nat
  BY FS_CardinalityType
<1> DEFINE n == Cardinality(rows)
           D == 1..n
<1>2. IsFiniteSet(D) /\ Cardinality(D) = n
  <2>1. n \in Int /\ 1 \in Int
    BY <1>1
  <2>2. IsFiniteSet(D) /\ Cardinality(D) = IF 1 > n THEN 0 ELSE n - 1 + 1
    BY <2>1, FS_Interval
  <2> HIDE DEF D
  <2> QED BY <1>1, <2>2
<1>3. order \in Surjection(D, rows)
  BY DEF Orders, Surjection
<1>4. order \in Injection(D, rows)
  <2> HIDE DEF D
  <2> QED BY <1>2, <1>3, FS_SurjSameCardinalityImpliesInj
<1> QED BY <1>4 DEF Injection, IsInjective

\* A log that a purge has rebuilt whole verifies.
LEMMA RebuiltVerifies ==
  ASSUME NEW rows, IsFiniteSet(rows), NEW order \in Orders(rows), log' = Rebuilt(order)
  PROVE  verify_chain'
<1>1. PICK n \in Nat : n = Cardinality(rows)
  BY FS_CardinalityType
<1>2. DOMAIN order = 1..n
  BY <1>1 DEF Orders
<1> DEFINE h == Rehashed(order)
<1>3. h[0] = GENESIS /\ \A i \in 1..n :
        h[i] = compute_hash(i, order[i].by, order[i].ts, h[i - 1])
  BY <1>2, RehashedIs
<1>4. \A i \in 1..n : /\ RebuiltRow(order, i) \in log'
                      /\ RebuiltRow(order, i).seq = i
                      /\ RebuiltRow(order, i).prev = h[i - 1]
                      /\ RebuiltRow(order, i).hash = h[i]
                      /\ RebuiltRow(order, i).by = order[i].by
                      /\ RebuiltRow(order, i).ts = order[i].ts
  BY <1>2 DEF Rebuilt, RebuiltRow
<1> HIDE DEF h
<1>5. ASSUME NEW r \in log'
      PROVE  /\ \A q \in log' : r.seq = q.seq => r = q
             /\ r.hash = compute_hash(r.seq, r.by, r.ts, r.prev)
             /\ IF r.seq = 1 THEN r.prev = GENESIS
                ELSE \E q \in log' : q.seq = r.seq - 1 /\ q.hash = r.prev
  <2>1. PICK i \in 1..n : r = RebuiltRow(order, i)
    BY <1>2, <1>5 DEF Rebuilt
  <2>2. ASSUME NEW q \in log', r.seq = q.seq
        PROVE  r = q
    <3>1. PICK j \in 1..n : q = RebuiltRow(order, j)
      BY <1>2, <2>2 DEF Rebuilt
    <3> QED BY <1>4, <2>1, <2>2, <3>1
  <2>3. r.hash = compute_hash(r.seq, r.by, r.ts, r.prev)
    BY <1>3, <1>4, <2>1
  <2>4. IF r.seq = 1 THEN r.prev = GENESIS
        ELSE \E q \in log' : q.seq = r.seq - 1 /\ q.hash = r.prev
    <3>1. CASE r.seq = 1
      BY <1>3, <1>4, <2>1, <3>1
    <3>2. CASE r.seq # 1
      <4>1. i - 1 \in 1..n
        BY <1>4, <2>1, <3>2
      <4>2. RebuiltRow(order, i - 1) \in log' /\ RebuiltRow(order, i - 1).seq = r.seq - 1
            /\ RebuiltRow(order, i - 1).hash = r.prev
        BY <1>4, <2>1, <4>1
      <4> QED BY <3>2, <4>2
    <3> QED BY <3>1, <3>2
  <2> QED BY <2>2, <2>3, <2>4
<1> QED BY <1>5 DEF verify_chain
-----------------------------------------------------------------------------
(* Type correctness, and what a serial log keeps                           *)

\* The records and rows are finitely many; a row's id is its own, and is
\* not above the number of records
Counted ==
  /\ IsFiniteSet(written) /\ IsFiniteSet(log)
  /\ \A e \in written : e.id \in 1..Cardinality(written)
  /\ \A r, q \in log : r.id = q.id => r = q

\* Where a process can be, and what it holds there
Placed ==
  /\ \A p \in Process : pc[p] = "insert" => link[p].seq # 0
  /\ \A p \in Writer : pc[p] \in {"idle", "lock", "insert"}
  /\ pc[Scheduler] = "purge" => snapshot[Scheduler] \subseteq log

ChainInv == RetentionInv /\ TypeOK /\ Counted /\ Placed

LEMMA ChainInit ==
  ASSUME Init
  PROVE  ChainInv
<1>1. RetentionInv
  BY RetentionInit
<1>2. TypeOK
  <2>1. \A p \in Process : link[p].seq \in Nat /\ link[p].ts \in 0..clock
    BY DEF Init, NoLink
  <2>2. clock \in 0..MaxClock /\ started \in 0..MaxRecords
        /\ purged <= cutoff /\ cutoff <= clock - Retention
    BY AuditAssumption DEF Init, AuditAssumption
  <2>3. pc \in [Process -> {"idle", "lock", "insert", "purge", "audit"}]
    BY DEF Init
  <2> QED BY <2>1, <2>2, <2>3 DEF Init, TypeOK
<1>3. Counted
  BY FS_EmptySet DEF Init, Counted
<1>4. Placed
  BY DEF Init, Placed, Process
<1> QED BY <1>1, <1>2, <1>3, <1>4 DEF ChainInv

\* An insertion brings one row and one record, both with the next id.
LEMMA InsertCounted ==
  ASSUME ChainInv, NEW p \in Process, insert_record(p)
  PROVE  /\ Counted'
         /\ NewRow(p).id \in Nat
<1> DEFINE n == Cardinality(written)
           e == Entry(NewRow(p))
<1>1. IsFiniteSet(written) /\ IsFiniteSet(log) /\ n \in Nat
  BY FS_CardinalityType DEF ChainInv, Counted
<1>2. NewRow(p).id = n + 1 /\ e.id = n + 1
  BY DEF NewRow, Entry
<1>3. written' = written \cup {e} /\ log' = log \cup {NewRow(p)}
  BY DEF insert_record
<1>4. \A d \in written : d.id \in 1..n
  BY DEF ChainInv, Counted
<1>5. e \notin written
  <2> HIDE DEF e, n
  <2> QED BY <1>1, <1>2, <1>4
<1>6. IsFiniteSet(written') /\ Cardinality(written') = n + 1 /\ IsFiniteSet(log')
  <2> HIDE DEF e
  <2> QED BY <1>1, <1>3, <1>5, FS_AddElement
<1>7. \A r \in log : r.id \in 1..n
  BY <1>4 DEF ChainInv, RetentionInv, RecordsKept, Entry
<1> HIDE DEF n, e
<1>8. \A d \in written' : d.id \in 1..Cardinality(written')
  BY <1>1, <1>2, <1>3, <1>4, <1>6
<1>9. \A r, q \in log' : r.id = q.id => r = q
  BY <1>1, <1>2, <1>3, <1>7 DEF ChainInv, Counted
<1> QED BY <1>1, <1>2, <1>6, <1>8, <1>9 DEF Counted

\* A purge leaves every row an id of its own.
LEMMA PurgeCounted ==
  ASSUME ChainInv, purge_commits
  PROVE  Counted'
<1> DEFINE rows == Kept(snapshot[Scheduler])
<1>1. PICK order \in Orders(rows) : log' = (log \ snapshot[Scheduler]) \cup Rebuilt(order)
  BY DEF purge_commits
<1>2. snapshot[Scheduler] \subseteq log /\ rows \subseteq snapshot[Scheduler]
      /\ written' = written
  BY DEF purge_commits, ChainInv, Placed, Kept
<1>3. IsFiniteSet(rows) /\ IsFiniteSet(log)
  BY <1>2, FS_Subset DEF ChainInv, Counted
<1> HIDE DEF rows
<1>4. PICK n \in Nat : n = Cardinality(rows)
  BY <1>3, FS_CardinalityType
<1>5. order \in [1..n -> rows]
  BY <1>4 DEF Orders
<1>6. IsFiniteSet(Rebuilt(order))
  <2>1. IsFiniteSet(1..n)
    BY <1>4, FS_Interval
  <2>2. [i \in 1..n |-> RebuiltRow(order, i)] \in Surjection(1..n, Rebuilt(order))
    BY <1>5 DEF Rebuilt, Surjection
  <2> QED BY <2>1, <2>2, FS_Surjection
<1>7. IsFiniteSet(log')
  BY <1>1, <1>3, <1>6, FS_Subset, FS_Union
<1>8. ASSUME NEW q \in Rebuilt(order)
      PROVE  \E i \in 1..n : q = RebuiltRow(order, i) /\ q.id = order[i].id /\ order[i] \in rows
  BY <1>5 DEF Rebuilt, RebuiltRow
<1>9. \A r, q \in log : r.id = q.id => r = q
  BY DEF ChainInv, Counted
<1>10. ASSUME NEW r \in Rebuilt(order), NEW q \in Rebuilt(order), r.id = q.id
       PROVE  r = q
  <2>1. PICK i \in 1..n : r = RebuiltRow(order, i) /\ r.id = order[i].id /\ order[i] \in rows
    BY <1>8
  <2>2. PICK j \in 1..n : q = RebuiltRow(order, j) /\ q.id = order[j].id /\ order[j] \in rows
    BY <1>8
  <2>3. order[i] = order[j]
    BY <1>2, <1>9, <1>10, <2>1, <2>2
  <2>4. i = j
    BY <1>3, <1>5, <2>3, OrdersInjective
  <2> QED BY <2>1, <2>2, <2>4
<1>11. ASSUME NEW r \in log \ snapshot[Scheduler], NEW q \in Rebuilt(order)
       PROVE  r.id # q.id
  BY <1>2, <1>8, <1>9
<1>12. \A r, q \in log' : r.id = q.id => r = q
  BY <1>1, <1>9, <1>10, <1>11
<1> QED BY <1>2, <1>7, <1>12 DEF Counted, ChainInv

LEMMA PlacedStep ==
  ASSUME ChainInv, [Next]_auditVars
  PROVE  Placed'
<1>0. Scheduler \in Process /\ Scheduler \notin Writer /\ Writer \subseteq Process
  BY AuditAssumption DEF Process, AuditAssumption
<1>1. Shape /\ Placed
  BY DEF ChainInv, RetentionInv
<1>2. \A r \in log : r.seq \in Nat
  BY DEF ChainInv, TypeOK, Row
<1>3. ASSUME NEW p \in Process, record(p)
      PROVE  Placed'
  <2>1. CASE read_tail(p)
    BY <1>0, <1>1, <1>2, <2>1 DEF read_tail, CallsRecord, Placed, Shape, Genesis, After, Newest
  <2>2. CASE select_tail(p)
    BY <1>0, <1>1, <2>2 DEF select_tail, CallsRecord, Placed, Shape
  <2>3. CASE lock_tail(p)
    BY <1>0, <1>1, <1>2, <2>3 DEF lock_tail, Placed, Shape, Genesis, After
  <2>4. CASE insert_record(p)
    BY <1>0, <1>1, <2>4 DEF insert_record, Placed, Shape
  <2> QED BY <1>3, <2>1, <2>2, <2>3, <2>4 DEF record
<1>4. CASE Tick
  BY <1>1, <1>4 DEF Tick, Placed
<1>5. CASE purge_reads
  BY <1>0, <1>1, <1>5 DEF purge_reads, Placed, Shape
<1>6. CASE purge_commits
  BY <1>0, <1>1, <1>6 DEF purge_commits, Placed, Shape
<1>7. CASE UNCHANGED auditVars
  BY <1>1, <1>7 DEF auditVars, Placed
<1> QED BY <1>3, <1>4, <1>5, <1>6, <1>7 DEF Next, purge_before
LEMMA TypeStep ==
  ASSUME ChainInv, [Next]_auditVars
  PROVE  TypeOK'
<1>0. Scheduler \in Process /\ Writer \subseteq Process
  BY DEF Process
<1>1. /\ Shape /\ Stamps /\ TypeOK /\ Placed
      /\ clock \in Nat /\ MaxRecords \in Nat /\ Retention \in Nat /\ MaxClock \in Nat
  BY AuditAssumption DEF ChainInv, RetentionInv, AuditAssumption, TypeOK
<1>2. Stamps'
  BY RetentionStep DEF ChainInv, RetentionInv
<1>3. \A r \in log : r.id \in Nat /\ r.seq \in Nat \ {0} /\ r.by \in Process /\ r.ts \in 0..clock
  BY <1>1 DEF TypeOK, Row
<1>4. ASSUME NEW p \in Process, read_tail(p)
      PROVE  TypeOK'
  <2>1. started' \in 0..MaxRecords
    BY <1>1, <1>4 DEF read_tail, CallsRecord, TypeOK
  <2>2. overlapped' \in BOOLEAN
    BY <1>1, <1>4 DEF read_tail, CallsRecord, NoteOverlap, TypeOK
  <2>3. \A q \in Process : link'[q].seq \in Nat /\ link'[q].ts \in 0..clock
    BY <1>1, <1>3, <1>4 DEF read_tail, Genesis, After, Shape, TypeOK, Newest
  <2>4. \A l \in locks : pc[l[2]] = "insert" => pc'[l[2]] = "insert"
    BY <1>1, <1>4 DEF read_tail, Shape, TypeOK
  <2> QED BY <1>1, <1>4, <2>1, <2>2, <2>3, <2>4 DEF read_tail, TypeOK, Row
<1>5. ASSUME NEW p \in Process, select_tail(p)
      PROVE  TypeOK'
  <2>1. started' \in 0..MaxRecords
    BY <1>1, <1>5 DEF select_tail, CallsRecord, TypeOK
  <2>2. overlapped' \in BOOLEAN
    BY <1>1, <1>5 DEF select_tail, CallsRecord, NoteOverlap, TypeOK
  <2>3. pc[p] # "insert"
    BY <1>5 DEF select_tail, CallsRecord
  <2>4. \A l \in locks : pc'[l[2]] = "insert"
    BY <1>1, <1>5, <2>3 DEF select_tail, Shape, TypeOK
  <2> QED BY <1>1, <1>5, <2>1, <2>2, <2>4 DEF select_tail, TypeOK, Row
<1>6. ASSUME NEW p \in Process, lock_tail(p)
      PROVE  TypeOK'
  <2>1. \A q \in Process : link'[q].seq \in Nat /\ link'[q].ts \in 0..clock
    BY <1>1, <1>3, <1>6 DEF lock_tail, Genesis, After, Shape, TypeOK
  <2>2. \A l \in locks' : l[1] \in Nat /\ l[2] \in Process /\ pc'[l[2]] = "insert"
    BY <1>1, <1>3, <1>6 DEF lock_tail, Shape, TypeOK
  <2> QED BY <1>1, <1>6, <2>1, <2>2 DEF lock_tail, TypeOK, Row
<1>7. ASSUME NEW p \in Process, insert_record(p)
      PROVE  TypeOK'
  <2>1. NewRow(p).id \in Nat
    BY <1>7, InsertCounted
  <2>2. /\ NewRow(p).seq \in Nat \ {0} /\ NewRow(p).by = p /\ NewRow(p).ts \in 0..clock
        /\ Entry(NewRow(p)) = [id |-> NewRow(p).id, by |-> p, ts |-> NewRow(p).ts]
    BY <1>1, <1>7 DEF insert_record, NewRow, Entry, Placed, TypeOK
  <2>3. \A r \in log' : [id |-> r.id, seq |-> r.seq, by |-> r.by, ts |-> r.ts] \in Row
    BY <1>1, <1>7, <2>1, <2>2 DEF insert_record, Row, TypeOK
  <2>4. written' \subseteq [id : Nat, by : Process, ts : 0..clock]
    BY <1>1, <1>7, <2>1, <2>2 DEF insert_record, TypeOK
  <2>5. \A q \in Process : link'[q].seq \in Nat /\ link'[q].ts \in 0..clock
    BY <1>1, <1>7 DEF insert_record, NoLink, Shape, TypeOK
  <2>6. \A l \in locks' : l[1] \in Nat /\ l[2] \in Process /\ pc'[l[2]] = "insert"
    BY <1>1, <1>7 DEF insert_record, Shape, TypeOK
  <2> QED BY <1>1, <1>7, <2>3, <2>4, <2>5, <2>6 DEF insert_record, TypeOK, Row
<1>8. CASE Tick
  <2>1. clock' \in 0..MaxClock /\ clock' \in Nat /\ \A x \in 0..clock : x \in 0..clock'
    BY <1>1, <1>8 DEF Tick
  <2>2. \A r \in log' : [id |-> r.id, seq |-> r.seq, by |-> r.by, ts |-> r.ts] \in Row'
    BY <1>3, <1>8, <2>1 DEF Tick, Row
  <2>3. written' \subseteq [id : Nat, by : Process, ts : 0..clock']
    BY <1>1, <1>8, <2>1 DEF Tick, TypeOK
  <2>4. purged' <= cutoff' /\ cutoff' <= clock' - Retention
    BY <1>2 DEF Stamps
  <2> QED BY <1>1, <1>8, <2>1, <2>2, <2>3, <2>4 DEF Tick, TypeOK
<1>9. CASE purge_reads
  <2>1. purged' <= cutoff' /\ cutoff' <= clock' - Retention
    BY <1>2 DEF Stamps
  <2>2. overlapped' \in BOOLEAN
    BY <1>1, <1>9 DEF purge_reads, NoteOverlap, TypeOK
  <2>3. \A l \in locks : pc'[l[2]] = "insert"
    BY <1>0, <1>1, <1>9 DEF purge_reads, Shape, TypeOK
  <2>4. pc' \in [Process -> {"idle", "lock", "insert", "purge", "audit"}]
    BY <1>0, <1>1, <1>9 DEF purge_reads, TypeOK
  <2> QED BY <1>1, <1>9, <2>1, <2>2, <2>3, <2>4 DEF purge_reads, TypeOK, Row
<1>10. CASE purge_commits
  <2>1. PICK order \in Orders(Kept(snapshot[Scheduler])) :
          log' = (log \ snapshot[Scheduler]) \cup Rebuilt(order)
    BY <1>10 DEF purge_commits
  <2>2. Kept(snapshot[Scheduler]) \subseteq log /\ IsFiniteSet(Kept(snapshot[Scheduler]))
    BY <1>1, <1>10, FS_Subset DEF purge_commits, Placed, Kept, ChainInv, Counted
  <2>3. PICK n \in Nat : n = Cardinality(Kept(snapshot[Scheduler]))
    BY <2>2, FS_CardinalityType
  <2>4. order \in [1..n -> log]
    BY <2>2, <2>3 DEF Orders
  <2>5. ASSUME NEW r \in Rebuilt(order)
        PROVE  [id |-> r.id, seq |-> r.seq, by |-> r.by, ts |-> r.ts] \in Row
    <3>1. PICK i \in 1..n : r = RebuiltRow(order, i)
      BY <2>4, <2>5 DEF Rebuilt
    <3>2. order[i] \in log /\ i \in Nat \ {0}
      BY <2>4
    <3> QED BY <1>3, <3>1, <3>2 DEF RebuiltRow, Row
  <2>6. \A r \in log' : [id |-> r.id, seq |-> r.seq, by |-> r.by, ts |-> r.ts] \in Row
    BY <1>1, <2>1, <2>5 DEF TypeOK
  <2>7. purged' <= cutoff' /\ cutoff' <= clock' - Retention
    BY <1>2 DEF Stamps
  <2>8. pc' \in [Process -> {"idle", "lock", "insert", "purge", "audit"}]
    BY <1>0, <1>1, <1>10 DEF purge_commits, TypeOK
  <2>9. \A l \in locks : pc'[l[2]] = "insert"
    BY <1>0, <1>1, <1>10 DEF purge_commits, Shape, TypeOK
  <2> QED BY <1>1, <1>10, <2>6, <2>7, <2>8, <2>9 DEF purge_commits, TypeOK, Row
<1>11. CASE UNCHANGED auditVars
  BY <1>1, <1>11 DEF auditVars, TypeOK, Row
<1> QED BY <1>4, <1>5, <1>6, <1>7, <1>8, <1>9, <1>10, <1>11 DEF Next, purge_before, record

LEMMA ChainStep ==
  ASSUME ChainInv, [Next]_auditVars
  PROVE  ChainInv'
<1>1. RetentionInv'
  BY RetentionStep DEF ChainInv
<1>2. Counted'
  <2>1. CASE \E p \in Process : insert_record(p)
    BY <2>1, InsertCounted
  <2>2. CASE purge_commits
    BY <2>2, PurgeCounted
  <2>3. CASE UNCHANGED <<log, written>>
    BY <2>3 DEF ChainInv, Counted
  <2>4. \/ purge_commits \/ (\E p \in Process : insert_record(p)) \/ UNCHANGED <<log, written>>
    BY DEF Next, auditVars, Tick, purge_before, purge_reads, record, read_tail, select_tail,
           lock_tail
  <2> QED BY <2>1, <2>2, <2>3, <2>4
<1>3. TypeOK' /\ Placed'
  BY TypeStep, PlacedStep
<1> QED BY <1>1, <1>2, <1>3 DEF ChainInv
\* A row with this link continues the log
Continues(l) ==
  \/ log = {} /\ l.seq = 1 /\ l.prev = GENESIS
  \/ \E r \in Newest(log) : l.seq = r.seq + 1 /\ l.prev = r.hash

\* While nothing has overlapped, at most one operation is under way, what it
\* has read is the log, and what it will insert continues the log
OneAtATime ==
  /\ \A p, q \in Process : Busy(p) /\ Busy(q) => p = q
  /\ \A p \in Process : pc[p] \in {"lock", "purge"} => snapshot[p] = log
  /\ \A p \in Process : pc[p] = "insert" => Continues(link[p])

Serial == ~ overlapped => OneAtATime /\ verify_chain

\* A row that continues a log that verifies leaves one that verifies.
LEMMA AppendVerifies ==
  ASSUME ChainInv, NEW p \in Process, insert_record(p), verify_chain, Continues(link[p])
  PROVE  verify_chain'
<1> DEFINE n == NewRow(p)
<1>1. log' = log \cup {n}
  BY DEF insert_record
<1>2. /\ n.seq = link[p].seq /\ n.prev = link[p].prev
      /\ n.hash = compute_hash(n.seq, n.by, n.ts, n.prev)
  BY DEF NewRow
<1> HIDE DEF n
<1>3. \A r \in log : r.seq \in Nat \ {0}
  BY DEF ChainInv, TypeOK, Row
<1>4. \A r \in log : r.seq # n.seq
  BY <1>2, <1>3 DEF Continues, Newest
<1>5. IF n.seq = 1 THEN n.prev = GENESIS ELSE \E q \in log : q.seq = n.seq - 1 /\ q.hash = n.prev
  BY <1>2, <1>3 DEF Continues, Newest
<1>6. \A r, q \in log' : r.seq = q.seq => r = q
  BY <1>1, <1>4 DEF verify_chain
<1>7. ASSUME NEW r \in log'
      PROVE  /\ r.hash = compute_hash(r.seq, r.by, r.ts, r.prev)
             /\ IF r.seq = 1 THEN r.prev = GENESIS
                ELSE \E q \in log' : q.seq = r.seq - 1 /\ q.hash = r.prev
  BY <1>1, <1>2, <1>5 DEF verify_chain
<1> QED BY <1>6, <1>7 DEF verify_chain

\* So does a purge of the whole log, broken or not.
LEMMA PurgeVerifies ==
  ASSUME ChainInv, purge_commits, log = snapshot[Scheduler]
  PROVE  verify_chain'
<1>1. PICK order \in Orders(Kept(snapshot[Scheduler])) : log' = Rebuilt(order)
  BY DEF purge_commits
<1>2. IsFiniteSet(Kept(snapshot[Scheduler]))
  BY FS_Subset DEF Kept, ChainInv, Counted
<1> QED BY <1>1, <1>2, RebuiltVerifies

LEMMA SerialStep ==
  ASSUME ChainInv, Serial, [Next]_auditVars
  PROVE  Serial'
<1>0. Scheduler \in Process /\ Scheduler \notin Writer /\ Writer \subseteq Process
  BY AuditAssumption DEF Process, AuditAssumption
<1>1. Shape /\ Placed /\ Counted
  BY DEF ChainInv, RetentionInv
<1> SUFFICES ASSUME ~ overlapped'
             PROVE  OneAtATime' /\ verify_chain'
  BY DEF Serial
<1>2. ASSUME NEW p \in Process, read_tail(p)
      PROVE  OneAtATime' /\ verify_chain'
  <2>1. OneAtATime /\ verify_chain /\ \A q \in Process \ {p} : ~ Busy(q)
    BY <1>2 DEF read_tail, CallsRecord, NoteOverlap, Serial
  <2>2. Continues(link'[p])
    BY <1>1, <1>2 DEF read_tail, Shape, Continues, Genesis, After
  <2>3. OneAtATime'
    BY <1>1, <1>2, <2>1, <2>2 DEF read_tail, Shape, OneAtATime, Busy, Continues, Newest
  <2>4. verify_chain'
    BY <1>2, <2>1 DEF read_tail, verify_chain
  <2> QED BY <2>3, <2>4
<1>3. ASSUME NEW p \in Process, select_tail(p)
      PROVE  OneAtATime' /\ verify_chain'
  <2>1. OneAtATime /\ verify_chain /\ \A q \in Process \ {p} : ~ Busy(q)
    BY <1>3 DEF select_tail, CallsRecord, NoteOverlap, Serial
  <2>2. OneAtATime'
    BY <1>1, <1>3, <2>1 DEF select_tail, Shape, OneAtATime, Busy, Continues, Newest
  <2>3. verify_chain'
    BY <1>3, <2>1 DEF select_tail, verify_chain
  <2> QED BY <2>2, <2>3
<1>4. ASSUME NEW p \in Process, lock_tail(p)
      PROVE  OneAtATime' /\ verify_chain'
  <2>1. OneAtATime /\ verify_chain
    BY <1>4 DEF lock_tail, Serial
  <2>2. snapshot[p] = log /\ \A q \in Process \ {p} : ~ Busy(q)
    BY <1>4, <2>1 DEF lock_tail, OneAtATime, Busy
  <2>3. Surviving(snapshot[p]) = log
    BY <2>2 DEF Surviving
  <2>4. Continues(link'[p])
    BY <1>1, <1>4, <2>3 DEF lock_tail, Shape, Continues, Genesis, After, Newest, Counted
  <2>5. OneAtATime'
    BY <1>1, <1>4, <2>1, <2>2, <2>4 DEF lock_tail, Shape, OneAtATime, Busy, Continues, Newest
  <2>6. verify_chain'
    BY <1>4, <2>1 DEF lock_tail, verify_chain
  <2> QED BY <2>5, <2>6
<1>5. ASSUME NEW p \in Process, insert_record(p)
      PROVE  OneAtATime' /\ verify_chain'
  <2>1. OneAtATime /\ verify_chain
    BY <1>5 DEF insert_record, Serial
  <2>2. Continues(link[p]) /\ \A q \in Process \ {p} : ~ Busy(q)
    BY <1>5, <2>1 DEF insert_record, OneAtATime, Busy
  <2>3. \A q \in Process : ~ Busy(q)'
    BY <1>1, <1>5, <2>2 DEF insert_record, Shape, Busy
  <2>4. OneAtATime'
    BY <2>3 DEF OneAtATime, Busy
  <2> QED BY <1>5, <2>1, <2>2, <2>4, AppendVerifies
<1>6. CASE Tick
  BY <1>6 DEF Tick, Serial, OneAtATime, Busy, Continues, Newest, verify_chain
<1>7. CASE purge_reads
  <2>1. OneAtATime /\ verify_chain /\ \A q \in Process \ {Scheduler} : ~ Busy(q)
    BY <1>7 DEF purge_reads, NoteOverlap, Serial
  <2>2. OneAtATime'
    BY <1>0, <1>1, <1>7, <2>1 DEF purge_reads, Shape, OneAtATime, Busy, Continues, Newest
  <2>3. verify_chain'
    BY <1>7, <2>1 DEF purge_reads, verify_chain
  <2> QED BY <2>2, <2>3
<1>8. CASE purge_commits
  <2>1. OneAtATime
    BY <1>8 DEF purge_commits, Serial
  <2>2. snapshot[Scheduler] = log /\ \A q \in Process \ {Scheduler} : ~ Busy(q)
    BY <1>0, <1>8, <2>1 DEF purge_commits, OneAtATime, Busy
  <2>3. \A q \in Process : ~ Busy(q)'
    BY <1>1, <1>8, <2>2 DEF purge_commits, Shape, Busy
  <2>4. OneAtATime'
    BY <2>3 DEF OneAtATime, Busy
  <2>5. verify_chain'
    BY <1>8, <2>2, PurgeVerifies
  <2> QED BY <2>4, <2>5
<1>9. CASE UNCHANGED auditVars
  BY <1>9 DEF auditVars, Serial, OneAtATime, Busy, Continues, Newest, verify_chain
<1> QED BY <1>2, <1>3, <1>4, <1>5, <1>6, <1>7, <1>8, <1>9 DEF Next, purge_before, record

LEMMA SerialInit ==
  ASSUME Init
  PROVE  Serial
BY DEF Init, Serial, OneAtATime, Busy, verify_chain
-----------------------------------------------------------------------------
(* A break stays visible                                                   *)

\* g are the hashes of the records f, one on top of the other
Hashes(k, f, g) ==
  /\ g[0] = GENESIS
  /\ \A i \in 1..k : g[i] = compute_hash(i, f[i].by, f[i].ts, g[i - 1])

\* A hash tells of k records, all different
Trail(k, f, g) ==
  /\ f \in [1..k -> written]
  /\ Hashes(k, f, g)
  /\ \A i, j \in 1..k : f[i] = f[j] => i = j

HashesOK == \A r \in log : r.hash = compute_hash(r.seq, r.by, r.ts, r.prev)

\* B are the rows that the last purge has rebuilt: a chain from 1 on, of
\* records that are not older than its cutoff
BaseOK(B) ==
  /\ B \subseteq log
  /\ pc[Scheduler] = "purge" => B \subseteq snapshot[Scheduler]
  /\ \A b \in B :
       /\ b.ts >= purged
       /\ \A j \in 1..b.seq : \E c \in B : c.seq = j
       /\ \E f, g : Trail(b.seq, f, g) /\ g[b.seq] = b.hash

\* What a row of this stamp may have been told of: nothing later and, when
\* the stamp is older than a cutoff, nothing that the purge did not see
Told(B, e, ts) ==
  /\ e.ts <= ts
  /\ ts < purged => \A r \in log \ B : e.id < r.id
  /\ pc[Scheduler] = "purge" /\ ts < cutoff => \A r \in log \ snapshot[Scheduler] : e.id < r.id

\* Rows inserted since tell of records written before them, and the first
\* row of a chain is its writer's first record of that time
RowsOK(B) ==
  \A r \in log \ B :
    /\ \E f, g : /\ Trail(r.seq - 1, f, g)
                 /\ g[r.seq - 1] = r.prev
                 /\ \A i \in 1..(r.seq - 1) : Told(B, f[i], r.ts) /\ f[i].id < r.id
    /\ r.seq = 1 => \A e \in written : e.by = r.by /\ e.ts = r.ts => e.id >= r.id

\* So do the rows about to be inserted
LinksOK(B) ==
  \A p \in Process : pc[p] = "insert" =>
    /\ \E f, g : /\ Trail(link[p].seq - 1, f, g)
                 /\ g[link[p].seq - 1] = link[p].prev
                 /\ \A i \in 1..(link[p].seq - 1) : Told(B, f[i], link[p].ts)
    /\ link[p].seq = 1 => \A e \in written : e.by = p => e.ts # link[p].ts

\* A SELECT sees what its own process has written
LockingOK ==
  \A p \in Process : pc[p] = "lock" =>
    \A e \in written : e.by = p /\ e.ts >= purged => \E s \in snapshot[p] : s.id = e.id

\* What a row's hash tells of is what the chain below it holds.
LEMMA Follow ==
  ASSUME verify_chain', \A r \in log' : r.seq \in Nat \ {0}, NEW z \in log', NEW f, NEW g,
         Hashes(z.seq - 1, f, g), g[z.seq - 1] = z.prev, NEW j \in 1..(z.seq - 1)
  PROVE  \E r \in log' : r.seq = j /\ r.by = f[j].by /\ r.ts = f[j].ts
<1> DEFINE k == z.seq - 1
           T == {d \in Nat : d < k /\ ~ \E r \in log' : r.seq = k - d /\ r.hash = g[k - d]}
<1>0. k \in Nat /\ k # 0
  OBVIOUS
<1>1. ASSUME T # {} PROVE FALSE
  <2>1. PICK d \in T : \A x \in T : d <= x
    BY <1>1, LeastElement
  <2>2. CASE d = 0
    BY <1>0, <2>1, <2>2 DEF verify_chain
  <2>3. CASE d # 0
    <3>1. d - 1 \in Nat /\ d - 1 < k /\ d - 1 \notin T
      BY <2>1, <2>3
    <3>2. PICK r \in log' : r.seq = k - (d - 1) /\ r.hash = g[k - (d - 1)]
      BY <3>1
    <3> DEFINE i == k - (d - 1)
    <3>3. i \in 1..k /\ i # 1 /\ i - 1 = k - d
      BY <1>0, <2>1, <2>3
    <3>4. g[i] = compute_hash(i, f[i].by, f[i].ts, g[i - 1])
      BY <3>3 DEF Hashes
    <3>5. r.hash = compute_hash(r.seq, r.by, r.ts, r.prev)
          /\ \E q \in log' : q.seq = r.seq - 1 /\ q.hash = r.prev
      BY <3>2, <3>3 DEF verify_chain
    <3>6. r.prev = g[i - 1]
      BY <3>2, <3>4, <3>5 DEF compute_hash
    <3> QED BY <2>1, <3>2, <3>3, <3>5, <3>6
  <2> QED BY <2>2, <2>3
<1>2. PICK r \in log' : r.seq = j /\ r.hash = g[j]
  <2>1. k - j \in Nat /\ k - j < k /\ k - j \notin T /\ k - (k - j) = j
    BY <1>0, <1>1
  <2> QED BY <2>1
<1>3. g[j] = compute_hash(j, f[j].by, f[j].ts, g[j - 1])
  BY DEF Hashes
<1>4. r.hash = compute_hash(r.seq, r.by, r.ts, r.prev)
  BY DEF verify_chain
<1> QED BY <1>2, <1>3, <1>4 DEF compute_hash

\* A chain has no room for one row more than it has places.
LEMMA NoRoom ==
  ASSUME NEW a \in Nat, NEW s \in Nat, a <= s, NEW F \in [a..s -> a..(s - 1)]
  PROVE  \E i, j \in a..s : i # j /\ F[i] = F[j]
<1> DEFINE S == a..s
           T == a..(s - 1)
<1>1. a \in Int /\ s \in Int /\ s - 1 \in Int
  OBVIOUS
<1>2. IsFiniteSet(S) /\ Cardinality(S) = IF a > s THEN 0 ELSE s - a + 1
  BY <1>1, FS_Interval
<1>3. IsFiniteSet(T) /\ Cardinality(T) = IF a > s - 1 THEN 0 ELSE (s - 1) - a + 1
  BY <1>1, FS_Interval
<1> HIDE DEF S, T
<1>4. Cardinality(T) < Cardinality(S)
  BY <1>2, <1>3
<1>5. F \in [S -> T]
  BY DEF S, T
<1>6. \E i, j \in S : i # j /\ F[i] = F[j]
  BY <1>2, <1>3, <1>4, <1>5, FS_PigeonHole
<1> QED BY <1>6 DEF S

\* A row with which a log starts to verify tells of records that a later row
\* had been told of before.  All of them but perhaps the first are younger
\* than every cutoff, so they are in the log, and below the new row, for the
\* rows above it are younger than the first of those: one place too few.
LEMMA InsertNeverRepairs ==
  ASSUME ChainInv, NEW B, BaseOK(B), RowsOK(B), LinksOK(B),
         NEW p \in Process, insert_record(p), verify_chain'
  PROVE  verify_chain
<1> SUFFICES ASSUME ~ verify_chain PROVE FALSE
  OBVIOUS
<1> DEFINE n == NewRow(p)
           s == link[p].seq
<1>1. /\ log' = log \cup {n}
      /\ n.seq = s /\ n.by = p /\ n.ts = link[p].ts /\ n.prev = link[p].prev
      /\ n.hash = compute_hash(n.seq, n.by, n.ts, n.prev)
      /\ s \in Nat \ {0} /\ n.ts \in Int /\ pc[p] = "insert"
  BY DEF insert_record, NewRow, ChainInv, TypeOK, Placed
<1>2. \A r \in log : r.seq \in Nat \ {0} /\ r.id \in Nat /\ r.ts \in Int
  BY DEF ChainInv, TypeOK, Row
<1>3. n \notin log
  <2>1. log' # log
    BY DEF verify_chain
  <2> QED BY <1>1, <2>1
<1> HIDE DEF n
<1>4. \A r \in log : r.seq # s
  BY <1>1, <1>3 DEF verify_chain
<1>5. \E q \in log : q.seq > s
  <2>1. PICK q \in log : q.seq # 1 /\ ~ \E r \in log : r.seq = q.seq - 1 /\ r.hash = q.prev
    BY <1>1 DEF verify_chain
  <2>2. PICK r \in log' : r.seq = q.seq - 1
    BY <1>1, <2>1 DEF verify_chain
  <2>3. r = n
    BY <1>1, <2>1, <2>2 DEF verify_chain
  <2> QED BY <1>1, <1>2, <2>2, <2>3
\* the earliest record above the new row
<1>6. PICK z \in log : z.seq > s /\ \A r \in log : r.seq > s => z.id <= r.id
  <2> DEFINE T == {r.id : r \in {q \in log : q.seq > s}}
  <2>1. T \in SUBSET Nat /\ T # {}
    BY <1>2, <1>5
  <2>2. PICK x \in T : \A y \in T : x <= y
    <3> HIDE DEF T
    <3> QED BY <2>1, LeastElement
  <2> QED BY <2>2
<1>7. z \notin B
  BY <1>1, <1>2, <1>4, <1>6 DEF BaseOK
<1>8. PICK f, g : /\ Trail(z.seq - 1, f, g)
                  /\ g[z.seq - 1] = z.prev
                  /\ \A i \in 1..(z.seq - 1) : f[i].id < z.id
  BY <1>6, <1>7 DEF RowsOK
<1>9. 1..s \subseteq 1..(z.seq - 1)
  BY <1>1, <1>2, <1>6
<1>10. \A r \in log' : r.seq \in Nat \ {0}
  BY <1>1, <1>2
<1>11. \A j \in 1..s : \E r \in log' : r.seq = j /\ r.by = f[j].by /\ r.ts = f[j].ts
  BY <1>1, <1>6, <1>8, <1>9, <1>10, Follow DEF Trail
<1>12. \A j \in 1..s : f[j] \in written /\ f[j].id \in Nat /\ f[j].ts \in Int
  BY <1>8, <1>9 DEF Trail, ChainInv, TypeOK
<1>13. ASSUME s = 1 PROVE FALSE
  <2>1. f[1].by = p /\ f[1].ts = link[p].ts /\ f[1] \in written
    BY <1>1, <1>4, <1>11, <1>12, <1>13
  <2> QED BY <1>1, <1>13, <2>1 DEF LinksOK
<1>14. PICK c \in log : c.seq = 1 /\ c.by = f[1].by /\ c.ts = f[1].ts
  <2>1. 1 \in 1..s /\ s # 1
    BY <1>1, <1>13
  <2> QED BY <1>1, <1>11, <2>1
\* every row of the chain but the first is younger than the cutoff
<1>15. ASSUME NEW r \in log', r.seq # 1, r.seq <= s, c.ts >= purged \/ r.ts < purged
       PROVE  r.ts >= purged
  <2>1. CASE r \in B
    BY <2>1 DEF BaseOK
  <2>2. CASE r \notin B
    <3>1. PICK u, h : /\ Trail(r.seq - 1, u, h)
                      /\ h[r.seq - 1] = r.prev
                      /\ \A i \in 1..(r.seq - 1) : Told(B, u[i], r.ts)
      <4>1. CASE r \in log
        BY <2>2, <4>1 DEF RowsOK
      <4>2. CASE r = n
        BY <1>1, <4>2 DEF LinksOK
      <4> QED BY <1>1, <4>1, <4>2
    <3>2. 1 \in 1..(r.seq - 1)
      BY <1>10, <1>15
    <3>3. PICK q \in log' : q.seq = 1 /\ q.by = u[1].by /\ q.ts = u[1].ts
      BY <1>10, <3>1, <3>2, Follow DEF Trail
    <3>4. q = c
      BY <1>1, <1>14, <3>3 DEF verify_chain
    <3>5. u[1] \in written /\ Told(B, u[1], r.ts) /\ u[1].id \in Nat
      BY <3>1, <3>2 DEF Trail, ChainInv, TypeOK
    <3>6. purged \in Int /\ r.ts \in Int /\ c.ts \in Int
      BY <1>1, <1>2 DEF ChainInv, RetentionInv, Stamps
    <3>7. CASE c.ts >= purged
      BY <3>3, <3>4, <3>5, <3>6, <3>7 DEF Told
    <3>8. CASE r.ts < purged /\ c \in B
      BY <3>8, <3>7 DEF BaseOK
    <3>9. CASE r.ts < purged /\ c \notin B
      <4>1. u[1].id < c.id
        BY <1>14, <3>5, <3>9 DEF Told
      <4>2. u[1].id >= c.id
        BY <1>14, <3>3, <3>4, <3>5, <3>9 DEF RowsOK
      <4> QED BY <1>2, <1>14, <3>5, <4>1, <4>2
    <3> QED BY <1>15, <3>7, <3>8, <3>9
  <2> QED BY <2>1, <2>2
<1>16. \A r \in log' : r.seq # 1 /\ r.seq <= s => r.ts >= purged
  <2>1. \A r \in log' : r.ts \in Int /\ purged \in Int
    BY <1>1, <1>2 DEF ChainInv, RetentionInv, Stamps
  <2> QED BY <1>15, <2>1
\* those records are in the log, below the new row
<1> DEFINE J == {j \in 1..s : f[j].ts >= purged}
<1>17. ASSUME NEW j \in J
       PROVE  \E r \in log : Entry(r) = f[j] /\ r.seq \in 1..(s - 1)
  <2>1. PICK r \in log : Entry(r) = f[j]
    BY <1>12 DEF ChainInv, RetentionInv, RecordsKept
  <2>2. r.id < z.id /\ r.id \in Nat /\ z.id \in Nat
    BY <1>2, <1>8, <1>9, <2>1 DEF Entry
  <2>3. ~ (r.seq > s)
    BY <1>6, <2>2
  <2> QED BY <1>1, <1>2, <1>4, <2>1, <2>3
<1> DEFINE row(j) == CHOOSE r \in log : Entry(r) = f[j] /\ r.seq \in 1..(s - 1)
<1>18. \A j \in J : row(j) \in log /\ Entry(row(j)) = f[j] /\ row(j).seq \in 1..(s - 1)
  BY <1>17
<1>19. \A j \in 2..s : j \in J
  <2> SUFFICES ASSUME NEW j \in 2..s PROVE f[j].ts >= purged
    BY <1>1
  <2>1. PICK r \in log' : r.seq = j /\ r.ts = f[j].ts
    BY <1>1, <1>11
  <2>2. r.seq # 1 /\ r.seq <= s
    BY <1>1, <2>1
  <2> QED BY <1>16, <2>1, <2>2
<1> HIDE DEF row
\* two of them would be one row
<1>20. \A i, j \in J : row(i).seq = row(j).seq => i = j
  <2> SUFFICES ASSUME NEW i \in J, NEW j \in J, row(i).seq = row(j).seq PROVE i = j
    OBVIOUS
  <2>1. row(i) = row(j)
    BY <1>1, <1>18 DEF verify_chain
  <2>2. f[i] = f[j]
    BY <1>18, <2>1
  <2> QED BY <1>8, <1>9, <2>2 DEF Trail
<1>21. CASE c.ts >= purged
  <2>1. 1 \in J
    BY <1>1, <1>14, <1>21
  <2>2. \A j \in 1..s : j \in J
    BY <1>1, <1>19, <2>1
  <2> DEFINE F == [j \in 1..s |-> row(j).seq]
  <2>3. F \in [1..s -> 1..(s - 1)]
    BY <1>18, <2>2
  <2>4. \E i, j \in 1..s : i # j /\ F[i] = F[j]
    <3> HIDE DEF F
    <3>1. s \in Nat /\ 1 \in Nat /\ 1 <= s
      BY <1>1
    <3> QED BY <2>3, <3>1, NoRoom
  <2> QED BY <1>20, <2>2, <2>4
<1>22. CASE ~ (c.ts >= purged)
  <2>1. \A j \in 2..s : row(j).seq \in 2..(s - 1)
    <3> SUFFICES ASSUME NEW j \in 2..s, row(j).seq = 1 PROVE FALSE
      BY <1>1, <1>18, <1>19
    <3>1. row(j) = c
      BY <1>1, <1>14, <1>18, <1>19 DEF verify_chain
    <3>2. c.ts = f[j].ts
      <4>1. Entry(c) = f[j]
        BY <1>18, <1>19, <3>1
      <4> HIDE DEF J
      <4> QED BY <4>1 DEF Entry
    <3> QED BY <1>19, <1>22, <3>2
  <2> DEFINE F == [j \in 2..s |-> row(j).seq]
  <2>3. F \in [2..s -> 2..(s - 1)]
    BY <2>1
  <2>4. \E i, j \in 2..s : i # j /\ F[i] = F[j]
    <3> HIDE DEF F
    <3>1. s \in Nat /\ 2 \in Nat /\ 2 <= s
      BY <1>1, <1>13
    <3> QED BY <2>3, <3>1, NoRoom
  <2> QED BY <1>19, <1>20, <2>4
<1> QED BY <1>21, <1>22

ViewOK(B) == BaseOK(B) /\ RowsOK(B) /\ LinksOK(B)

BreakInv == HashesOK /\ LockingOK /\ \E B \in SUBSET log : ViewOK(B)

\* The hash of a row tells of the row and of what it was inserted after.
LEMMA RowTrail ==
  ASSUME ChainInv, HashesOK, NEW B, BaseOK(B), RowsOK(B), NEW r \in log
  PROVE  \E f, g : Trail(r.seq, f, g) /\ g[r.seq] = r.hash
<1>1. CASE r \in B
  BY <1>1 DEF BaseOK
<1>2. CASE r \notin B
  <2> DEFINE k == r.seq
  <2>1. k \in Nat \ {0} /\ Entry(r) \in written /\ r.hash = compute_hash(k, r.by, r.ts, r.prev)
    BY DEF ChainInv, TypeOK, Row, RetentionInv, RecordsKept, HashesOK
  <2>2. PICK f, g : /\ Trail(k - 1, f, g) /\ g[k - 1] = r.prev
                    /\ \A i \in 1..(k - 1) : f[i].id < r.id
    BY <1>2 DEF RowsOK
  <2> DEFINE F == [i \in 1..k |-> IF i = k THEN Entry(r) ELSE f[i]]
             G == [i \in {0} \cup 1..k |-> IF i = k THEN r.hash ELSE g[i]]
  <2> HIDE DEF k
  <2>3. \A i \in 1..k : i = k \/ i \in 1..(k - 1)
    BY <2>1
  <2>4. F \in [1..k -> written]
    BY <2>1, <2>2, <2>3 DEF Trail
  <2>5. G[0] = GENESIS /\ G[k] = r.hash /\ \A i \in 1..(k - 1) : G[i] = g[i]
    BY <2>1, <2>2 DEF Trail, Hashes
  <2>6. F[k] = Entry(r) /\ \A i \in 1..(k - 1) : F[i] = f[i]
    BY <2>1
  <2>7. \A i \in 1..k : G[i - 1] = g[i - 1]
    BY <2>1, <2>2, <2>5 DEF Trail, Hashes
  <2> HIDE DEF F, G
  <2>8. Hashes(k, F, G)
    <3> SUFFICES ASSUME NEW i \in 1..k
                 PROVE  G[i] = compute_hash(i, F[i].by, F[i].ts, G[i - 1])
      BY <2>5 DEF Hashes
    <3>1. CASE i = k
      BY <2>1, <2>2, <2>5, <2>6, <2>7, <3>1 DEF Entry
    <3>2. CASE i \in 1..(k - 1)
      BY <2>2, <2>5, <2>6, <2>7, <3>2 DEF Trail, Hashes
    <3> QED BY <2>3, <3>1, <3>2
  <2>9. ASSUME NEW i \in 1..k, NEW j \in 1..k, F[i] = F[j]
        PROVE  i = j
    <3>1. r.id \in Nat /\ Entry(r).id = r.id
      BY DEF ChainInv, TypeOK, Row, Entry
    <3>2. \A x \in 1..(k - 1) : f[x].id \in Nat
      BY <2>2 DEF Trail, ChainInv, TypeOK
    <3> QED BY <2>2, <2>3, <2>6, <2>9, <3>1, <3>2 DEF Trail
  <2> QED BY <2>4, <2>5, <2>8, <2>9 DEF Trail, k
<1> QED BY <1>1, <1>2

\* What is read now can be told of.
LEMMA Readable ==
  ASSUME ChainInv, HashesOK, NEW B, BaseOK(B), RowsOK(B), NEW r \in log
  PROVE  \E f, g : /\ Trail(r.seq, f, g)
                   /\ g[r.seq] = r.hash
                   /\ \A i \in 1..r.seq : Told(B, f[i], clock)
<1>1. PICK f, g : Trail(r.seq, f, g) /\ g[r.seq] = r.hash
  BY RowTrail
<1>2. /\ clock \in Int /\ cutoff \in Int /\ purged \in Int /\ Retention \in Nat
      /\ purged <= cutoff /\ cutoff <= clock - Retention
  BY AuditAssumption DEF ChainInv, RetentionInv, Stamps, AuditAssumption
<1>3. ASSUME NEW i \in 1..r.seq PROVE Told(B, f[i], clock)
  <2>1. f[i] \in written
    BY <1>1 DEF Trail
  <2>2. f[i].ts \in 0..clock
    BY <2>1 DEF ChainInv, TypeOK
  <2> QED BY <1>2, <2>2 DEF Told
<1> QED BY <1>1, <1>3

\* Who finds no row has not written one either, at this time.
LEMMA FirstOfItsTime ==
  ASSUME ChainInv, NEW e \in written, e.ts = clock
  PROVE  e.ts >= purged /\ \E r \in log : Entry(r) = e
<1>1. e.ts >= purged
  BY AuditAssumption DEF ChainInv, RetentionInv, Stamps, AuditAssumption
<1> QED BY <1>1 DEF ChainInv, RetentionInv, RecordsKept

\* The empty trail
LEMMA NoTrail == \E f, g : Trail(0, f, g) /\ g[0] = GENESIS
<1> DEFINE f == [i \in 1..0 |-> GENESIS]
           g == [i \in {0} |-> GENESIS]
<1>1. f \in [1..0 -> written] /\ g[0] = GENESIS
  OBVIOUS
<1>2. Trail(0, f, g)
  <2> HIDE DEF f
  <2> QED BY <1>1 DEF Trail, Hashes
<1> QED BY <1>1, <1>2

\* Steps that only read leave rows and trails as they are.
LEMMA ReadingKeeps ==
  ASSUME NEW B, BaseOK(B), RowsOK(B), HashesOK, UNCHANGED <<log, written, purged, cutoff>>,
         pc'[Scheduler] = "purge" =>
           pc[Scheduler] = "purge" /\ snapshot'[Scheduler] = snapshot[Scheduler]
  PROVE  /\ BaseOK(B)' /\ RowsOK(B)' /\ HashesOK'
         /\ \A e, ts : Told(B, e, ts) => Told(B, e, ts)'
         /\ \A k, f, g : Trail(k, f, g) => Trail(k, f, g)'
<1>1. \A e, ts : Told(B, e, ts) => Told(B, e, ts)'
  BY DEF Told
<1>2. \A k, f, g : Trail(k, f, g) => Trail(k, f, g)'
  BY DEF Trail
<1>3. BaseOK(B)'
  BY <1>2 DEF BaseOK
<1>4. RowsOK(B)'
  BY <1>1, <1>2 DEF RowsOK
<1>5. HashesOK'
  BY DEF HashesOK
<1> QED BY <1>1, <1>2, <1>3, <1>4, <1>5

LEMMA BreakInit ==
  ASSUME Init
  PROVE  BreakInv
<1>1. HashesOK /\ LockingOK
  BY DEF Init, HashesOK, LockingOK
<1>2. ViewOK({})
  BY DEF Init, ViewOK, BaseOK, RowsOK, LinksOK
<1> QED BY <1>1, <1>2 DEF BreakInv

\* A process whose link is to be inserted, as the others are
Linked(B, p) ==
  /\ \E f, g : /\ Trail(link[p].seq - 1, f, g)
               /\ g[link[p].seq - 1] = link[p].prev
               /\ \A i \in 1..(link[p].seq - 1) : Told(B, f[i], link[p].ts)
  /\ link[p].seq = 1 => \A e \in written : e.by = p => e.ts # link[p].ts

LEMMA LinkedMeans ==
  ASSUME NEW B
  PROVE  LinksOK(B) <=> \A p \in Process : pc[p] = "insert" => Linked(B, p)
BY DEF LinksOK, Linked

\* A process that finds no row starts a chain,
LEMMA StartsChain ==
  ASSUME ChainInv, HashesOK, NEW B, BaseOK(B), RowsOK(B), NEW p \in Process, link'[p] = Genesis,
         UNCHANGED <<log, written, purged, cutoff>>,
         pc'[Scheduler] = "purge" =>
           pc[Scheduler] = "purge" /\ snapshot'[Scheduler] = snapshot[Scheduler],
         \A e \in written : e.by = p => e.ts # clock
  PROVE  Linked(B, p)'
<1>1. link'[p].seq = 1 /\ link'[p].prev = GENESIS /\ link'[p].ts = clock
  BY DEF Genesis
<1>2. PICK f, g : Trail(0, f, g) /\ g[0] = GENESIS
  BY NoTrail
<1>3. Trail(0, f, g)'
  BY <1>2, ReadingKeeps
<1>4. Trail(link[p].seq - 1, f, g)'
  BY <1>1, <1>3 DEF Trail, Hashes
<1> QED BY <1>1, <1>2, <1>4 DEF Linked

\* one that finds a row continues the chain.
LEMMA ContinuesChain ==
  ASSUME ChainInv, HashesOK, NEW B, BaseOK(B), RowsOK(B), NEW p \in Process, NEW r \in log,
         link'[p] = After(r), UNCHANGED <<log, written, purged, cutoff>>,
         pc'[Scheduler] = "purge" =>
           pc[Scheduler] = "purge" /\ snapshot'[Scheduler] = snapshot[Scheduler]
  PROVE  Linked(B, p)'
<1>1. r.seq \in Nat \ {0}
  BY DEF ChainInv, TypeOK, Row
<1>2. /\ link'[p].seq = r.seq + 1 /\ link'[p].seq # 1 /\ link'[p].seq - 1 = r.seq
      /\ link'[p].prev = r.hash /\ link'[p].ts = clock
  BY <1>1 DEF After
<1>3. PICK f, g : /\ Trail(r.seq, f, g)
                  /\ g[r.seq] = r.hash
                  /\ \A i \in 1..r.seq : Told(B, f[i], clock)
  BY Readable
<1>4. Trail(r.seq, f, g)' /\ \A i \in 1..r.seq : Told(B, f[i], link[p].ts)'
  <2>1. \A i \in 1..r.seq : Told(B, f[i], link'[p].ts)
    BY <1>2, <1>3
  <2> QED BY <1>3, <2>1, ReadingKeeps DEF Told
<1>5. Trail(link[p].seq - 1, f, g)'
  BY <1>2, <1>4 DEF Trail, Hashes
<1> QED BY <1>2, <1>3, <1>4, <1>5 DEF Linked

\* Links that stay are linked as before.
LEMMA OthersLinked ==
  ASSUME ChainInv, HashesOK, NEW B, BaseOK(B), RowsOK(B), NEW p \in Process, Linked(B, p),
         link'[p] = link[p], UNCHANGED <<log, written, purged, cutoff>>,
         pc'[Scheduler] = "purge" =>
           pc[Scheduler] = "purge" /\ snapshot'[Scheduler] = snapshot[Scheduler]
  PROVE  Linked(B, p)'
<1>1. PICK f, g : /\ Trail(link[p].seq - 1, f, g)
                  /\ g[link[p].seq - 1] = link[p].prev
                  /\ \A i \in 1..(link[p].seq - 1) : Told(B, f[i], link[p].ts)
  BY DEF Linked
<1>2. /\ Trail(link[p].seq - 1, f, g)'
      /\ \A i \in 1..(link[p].seq - 1) : Told(B, f[i], link[p].ts)'
  BY <1>1, ReadingKeeps DEF Trail, Told
<1> QED BY <1>1, <1>2 DEF Linked

LEMMA BreakReads ==
  ASSUME ChainInv, BreakInv, NEW p \in Process,
         read_tail(p) \/ select_tail(p) \/ lock_tail(p)
  PROVE  BreakInv'
<1>0. /\ HashesOK /\ LockingOK /\ Shape
      /\ pc \in [Process -> {"idle", "lock", "insert", "purge", "audit"}] /\ Scheduler \in Process
  BY DEF BreakInv, ChainInv, RetentionInv, TypeOK, Process
<1>1. PICK B \in SUBSET log : ViewOK(B)
  BY DEF BreakInv
<1>2. BaseOK(B) /\ RowsOK(B) /\ \A q \in Process : pc[q] = "insert" => Linked(B, q)
  BY <1>1, LinkedMeans DEF ViewOK
<1>3. /\ UNCHANGED <<log, written, purged, cutoff, clock>>
      /\ pc'[p] \in {"lock", "insert"} /\ pc[p] \in {"idle", "audit", "lock"}
      /\ \A q \in Process \ {p} :
           pc'[q] = pc[q] /\ link'[q] = link[q] /\ snapshot'[q] = snapshot[q]
  BY <1>0 DEF read_tail, select_tail, lock_tail, CallsRecord, Shape
<1>4. pc'[Scheduler] = "purge" =>
        pc[Scheduler] = "purge" /\ snapshot'[Scheduler] = snapshot[Scheduler]
  BY <1>0, <1>3
<1>5. BaseOK(B)' /\ RowsOK(B)' /\ HashesOK'
  BY <1>0, <1>2, <1>3, <1>4, ReadingKeeps
<1>6. ASSUME pc'[p] = "insert" PROVE Linked(B, p)'
  <2>1. CASE read_tail(p) /\ log = {} /\ link'[p] = Genesis
    <3>1. \A e \in written : e.by = p => e.ts # clock
      BY <2>1, FirstOfItsTime
    <3> QED BY <1>0, <1>2, <1>3, <1>4, <2>1, <3>1, StartsChain
  <2>2. CASE lock_tail(p) /\ Surviving(snapshot[p]) = {} /\ link'[p] = Genesis
    <3>1. ASSUME NEW e \in written, e.by = p, e.ts = clock PROVE FALSE
      <4>1. PICK r \in log : Entry(r) = e
        BY <3>1, FirstOfItsTime
      <4>2. PICK t \in snapshot[p] : t.id = e.id
        BY <1>0, <2>2, <3>1, FirstOfItsTime DEF LockingOK, lock_tail
      <4>3. r.id = t.id
        BY <4>1, <4>2 DEF Entry
      <4> QED BY <2>2, <4>3 DEF Surviving
    <3> QED BY <1>0, <1>2, <1>3, <1>4, <2>2, <3>1, StartsChain
  <2>3. CASE \E r \in log : link'[p] = After(r)
    BY <1>0, <1>2, <1>3, <1>4, <2>3, ContinuesChain
  <2>4. CASE read_tail(p)
    BY <1>0, <2>1, <2>3, <2>4 DEF read_tail, Shape, Newest
  <2>5. CASE lock_tail(p)
    BY <1>0, <2>2, <2>3, <2>5 DEF lock_tail, Shape
  <2>6. ~ select_tail(p)
    BY <1>0, <1>6 DEF select_tail, Shape
  <2> QED BY <2>4, <2>5, <2>6
<1>7. ASSUME NEW q \in Process, pc'[q] = "insert" PROVE Linked(B, q)'
  BY <1>0, <1>2, <1>3, <1>4, <1>6, <1>7, OthersLinked
<1>8. LinksOK(B)'
  BY <1>7 DEF LinksOK, Linked
<1>9. LockingOK'
  <2> SUFFICES ASSUME NEW q \in Process, pc'[q] = "lock", NEW e \in written, e.by = q, e.ts >= purged
               PROVE  \E t \in snapshot'[q] : t.id = e.id
    BY <1>3 DEF LockingOK
  <2>1. CASE q # p
    BY <1>0, <1>3, <2>1 DEF LockingOK
  <2>2. CASE q = p
    <3>1. snapshot'[p] = log
      BY <1>0, <2>2 DEF read_tail, lock_tail, select_tail, Shape
    <3>2. PICK r \in log : Entry(r) = e
      BY DEF ChainInv, RetentionInv, RecordsKept
    <3> QED BY <2>2, <3>1, <3>2 DEF Entry
  <2> QED BY <2>1, <2>2
<1>10. ViewOK(B)' /\ B \in SUBSET log'
  BY <1>3, <1>5, <1>8 DEF ViewOK
<1> QED BY <1>5, <1>9, <1>10 DEF BreakInv

\* A new row is told of what its link was, and is younger than all of it.
LEMMA BreakInserts ==
  ASSUME ChainInv, BreakInv, NEW p \in Process, insert_record(p)
  PROVE  BreakInv'
<1>a. PICK n : n = NewRow(p)
  OBVIOUS
<1>b. PICK e : e = Entry(n)
  OBVIOUS
<1>0. /\ HashesOK /\ LockingOK /\ Shape /\ Scheduler \in Process
      /\ pc \in [Process -> {"idle", "lock", "insert", "purge", "audit"}]
  BY DEF BreakInv, ChainInv, RetentionInv, TypeOK, Process
<1>1. PICK B \in SUBSET log : BaseOK(B) /\ RowsOK(B) /\ LinksOK(B)
  BY DEF BreakInv, ViewOK
<1>2. /\ log' = log \cup {n} /\ written' = written \cup {e}
      /\ UNCHANGED <<snapshot, purged, cutoff>>
      /\ pc[p] = "insert" /\ pc'[p] = "idle"
      /\ \A q \in Process \ {p} : pc'[q] = pc[q] /\ link'[q] = link[q]
  BY <1>a, <1>b, <1>0 DEF insert_record, Shape
<1>3. /\ n.seq = link[p].seq /\ n.by = p /\ n.ts = link[p].ts /\ n.prev = link[p].prev
      /\ n.hash = compute_hash(n.seq, n.by, n.ts, n.prev)
      /\ e.id = n.id /\ e.by = p /\ e.ts = n.ts
  BY <1>a, <1>b DEF NewRow, Entry
<1>4. /\ n.id \in Nat
      /\ \A d \in written : d.id \in Nat /\ d.id < n.id
      /\ \A r \in log : r.id \in Nat /\ r.id < n.id
  <2>1. Cardinality(written) \in Nat
    BY FS_CardinalityType DEF ChainInv, Counted
  <2>2. n.id = Cardinality(written) + 1
    BY <1>a DEF NewRow
  <2>3. \A d \in written : d.id \in 1..Cardinality(written)
    BY DEF ChainInv, Counted
  <2>4. \A r \in log : \E d \in written : r.id = d.id
    BY DEF ChainInv, RetentionInv, RecordsKept, Entry
  <2> QED BY <2>1, <2>2, <2>3, <2>4
<1>5. n \notin log /\ n \notin B
  BY <1>1, <1>4
<1>6. \A k, f, g : Trail(k, f, g) => Trail(k, f, g)'
  <2> SUFFICES ASSUME NEW k, NEW f, NEW g, Trail(k, f, g) PROVE f \in [1..k -> written']
    BY DEF Trail
  <2> QED BY <1>2 DEF Trail
<1>7. pc'[Scheduler] = "purge" => pc[Scheduler] = "purge"
  BY <1>0, <1>2
<1>8. \A ts, d : d \in written /\ Told(B, d, ts) => Told(B, d, ts)'
  BY <1>2, <1>4, <1>7 DEF Told
<1>9. BaseOK(B)'
  BY <1>1, <1>2, <1>6, <1>7 DEF BaseOK
<1>10. ASSUME NEW r \in log \ B
       PROVE  /\ \E f, g : /\ Trail(r.seq - 1, f, g)'
                           /\ g[r.seq - 1] = r.prev
                           /\ \A i \in 1..(r.seq - 1) : Told(B, f[i], r.ts)' /\ f[i].id < r.id
              /\ r.seq = 1 => \A d \in written' : d.by = r.by /\ d.ts = r.ts => d.id >= r.id
  <2>1. PICK f, g : /\ Trail(r.seq - 1, f, g)
                    /\ g[r.seq - 1] = r.prev
                    /\ \A i \in 1..(r.seq - 1) : Told(B, f[i], r.ts) /\ f[i].id < r.id
    BY <1>1 DEF RowsOK
  <2>2. \A i \in 1..(r.seq - 1) : f[i] \in written
    BY <2>1 DEF Trail
  <2>3. Trail(r.seq - 1, f, g)' /\ \A i \in 1..(r.seq - 1) : Told(B, f[i], r.ts)'
    BY <1>6, <1>8, <2>1, <2>2
  <2>4. ASSUME r.seq = 1, NEW d \in written', d.by = r.by, d.ts = r.ts PROVE d.id >= r.id
    BY <1>1, <1>2, <1>3, <1>4, <2>4 DEF RowsOK
  <2> QED BY <2>1, <2>3, <2>4
<1>11. /\ \E f, g : /\ Trail(n.seq - 1, f, g)'
                    /\ g[n.seq - 1] = n.prev
                    /\ \A i \in 1..(n.seq - 1) : Told(B, f[i], n.ts)' /\ f[i].id < n.id
       /\ n.seq = 1 => \A d \in written' : d.by = n.by /\ d.ts = n.ts => d.id >= n.id
  <2>1. PICK f, g : /\ Trail(n.seq - 1, f, g)
                    /\ g[n.seq - 1] = n.prev
                    /\ \A i \in 1..(n.seq - 1) : Told(B, f[i], n.ts)
    BY <1>1, <1>2, <1>3 DEF LinksOK
  <2>2. \A i \in 1..(n.seq - 1) : f[i] \in written
    BY <2>1 DEF Trail
  <2>3. Trail(n.seq - 1, f, g)' /\ \A i \in 1..(n.seq - 1) : Told(B, f[i], n.ts)'
    BY <1>6, <1>8, <2>1, <2>2
  <2>4. ASSUME n.seq = 1, NEW d \in written', d.by = n.by, d.ts = n.ts
        PROVE  d.id >= n.id
    <3>1. d \notin written
      BY <1>1, <1>2, <1>3, <2>4 DEF LinksOK
    <3>2. d = e
      BY <1>2, <3>1
    <3> QED BY <1>3, <1>4, <3>2
  <2> QED BY <1>4, <2>1, <2>2, <2>3, <2>4
<1>12. RowsOK(B)'
  BY <1>2, <1>10, <1>11 DEF RowsOK
<1>13. ASSUME NEW q \in Process, pc'[q] = "insert" PROVE Linked(B, q)'
  <2>1. q # p /\ pc[q] = "insert" /\ link'[q] = link[q]
    BY <1>2, <1>13
  <2>2. PICK l : l = link[q]
    OBVIOUS
  <2>3. PICK f, g : /\ Trail(l.seq - 1, f, g)
                    /\ g[l.seq - 1] = l.prev
                    /\ \A i \in 1..(l.seq - 1) : Told(B, f[i], l.ts)
    BY <1>1, <2>1, <2>2 DEF LinksOK
  <2>4. \A i \in 1..(l.seq - 1) : f[i] \in written
    BY <2>3 DEF Trail
  <2>5. Trail(l.seq - 1, f, g)' /\ \A i \in 1..(l.seq - 1) : Told(B, f[i], l.ts)'
    BY <1>6, <1>8, <2>3, <2>4
  <2>6. l.seq = 1 => \A d \in written' : d.by = q => d.ts # l.ts
    BY <1>1, <1>2, <1>3, <2>1, <2>2 DEF LinksOK
  <2>7. \E h, k : /\ Trail(l.seq - 1, h, k)'
                  /\ k[l.seq - 1] = l.prev
                  /\ \A i \in 1..(l.seq - 1) : Told(B, h[i], l.ts)'
    BY <2>3, <2>5
  <2>8. link'[q] = l
    BY <2>1, <2>2
  <2> QED BY <2>6, <2>7, <2>8 DEF Linked, Trail, Told
<1>14. LinksOK(B)'
  BY <1>13 DEF LinksOK, Linked
<1>15. LockingOK'
  BY <1>0, <1>2, <1>3 DEF LockingOK
<1>16. HashesOK'
  BY <1>0, <1>2, <1>3 DEF HashesOK
<1>17. ViewOK(B)' /\ B \in SUBSET log'
  BY <1>1, <1>2, <1>9, <1>12, <1>14 DEF ViewOK
<1> QED BY <1>15, <1>16, <1>17 DEF BreakInv

\* A purge that starts sees everything written so far.
LEMMA BreakPurgeReads ==
  ASSUME ChainInv, BreakInv, purge_reads
  PROVE  BreakInv'
<1>0. /\ HashesOK /\ LockingOK /\ Shape /\ Scheduler \in Process
  BY DEF BreakInv, ChainInv, RetentionInv, Process
<1>1. PICK B \in SUBSET log : BaseOK(B) /\ RowsOK(B) /\ LinksOK(B)
  BY DEF BreakInv, ViewOK
<1>2. /\ UNCHANGED <<log, link, written, purged>>
      /\ pc[Scheduler] = "idle" /\ pc'[Scheduler] = "purge" /\ snapshot'[Scheduler] = log
      /\ \A q \in Process \ {Scheduler} : pc'[q] = pc[q] /\ snapshot'[q] = snapshot[q]
  BY <1>0 DEF purge_reads, Shape
<1>3. \A k, f, g : Trail(k, f, g) => Trail(k, f, g)'
  BY <1>2 DEF Trail
<1>4. \A d, ts : Told(B, d, ts) => Told(B, d, ts)'
  BY <1>2 DEF Told
<1>5. BaseOK(B)'
  BY <1>1, <1>2, <1>3 DEF BaseOK
<1>6. RowsOK(B)'
  BY <1>1, <1>2, <1>3, <1>4 DEF RowsOK
<1>7. LinksOK(B)'
  <2>1. \A q \in Process : pc'[q] = "insert" => pc[q] = "insert"
    BY <1>2
  <2> QED BY <1>1, <1>2, <1>3, <1>4, <2>1 DEF LinksOK, Told, Trail
<1>8. LockingOK' /\ HashesOK'
  BY <1>0, <1>2 DEF LockingOK, HashesOK
<1>9. ViewOK(B)' /\ B \in SUBSET log'
  BY <1>1, <1>2, <1>5, <1>6, <1>7 DEF ViewOK
<1> QED BY <1>8, <1>9 DEF BreakInv

\* The rows that a purge rebuilds tell of each other only, and what it did
\* not see had been told of nothing it did not see.
LEMMA BreakPurges ==
  ASSUME ChainInv, BreakInv, purge_commits
  PROVE  BreakInv'
<1>0. /\ HashesOK /\ LockingOK /\ Shape /\ Placed /\ Scheduler \in Process
      /\ purged \in Int /\ cutoff \in Int /\ purged <= cutoff
      /\ \A e \in written : e.ts \in Int
  BY DEF BreakInv, ChainInv, RetentionInv, Stamps, Process
<1>1. PICK B \in SUBSET log : BaseOK(B) /\ RowsOK(B) /\ LinksOK(B)
  BY DEF BreakInv, ViewOK
<1>2. PICK rows : rows = Kept(snapshot[Scheduler])
  OBVIOUS
<1>3. PICK order \in Orders(rows) : log' = (log \ snapshot[Scheduler]) \cup Rebuilt(order)
  BY <1>2 DEF purge_commits
<1>4. PICK C : C = Rebuilt(order)
  OBVIOUS
<1>5. /\ UNCHANGED <<link, written, cutoff>> /\ purged' = cutoff
      /\ pc[Scheduler] = "purge" /\ pc'[Scheduler] = "audit"
      /\ \A q \in Process \ {Scheduler} : pc'[q] = pc[q] /\ snapshot'[q] = snapshot[q]
  BY <1>0 DEF purge_commits, Shape
<1>6. /\ rows \subseteq snapshot[Scheduler] /\ snapshot[Scheduler] \subseteq log
      /\ \A r \in rows : r.ts >= cutoff /\ Entry(r) \in written
  BY <1>0, <1>2, <1>5 DEF Kept, Placed, ChainInv, RetentionInv, RecordsKept
<1>7. IsFiniteSet(rows)
  BY <1>6, FS_Subset DEF ChainInv, Counted
<1>8. PICK m \in Nat : m = Cardinality(rows)
  BY <1>7, FS_CardinalityType
<1>9. order \in [1..m -> rows]
  BY <1>8 DEF Orders
<1>10. PICK h : h = Rehashed(order)
  OBVIOUS
<1>11. /\ h[0] = GENESIS
       /\ \A i \in 1..m : h[i] = compute_hash(i, order[i].by, order[i].ts, h[i - 1])
  BY <1>9, <1>10, RehashedIs
<1>12. \A i \in 1..m : RebuiltRow(order, i) \in C
  BY <1>4, <1>9 DEF Rebuilt
<1>13. \A i \in 1..m :
         /\ RebuiltRow(order, i).seq = i /\ RebuiltRow(order, i).by = order[i].by
         /\ RebuiltRow(order, i).ts = order[i].ts
         /\ RebuiltRow(order, i).prev = h[i - 1] /\ RebuiltRow(order, i).hash = h[i]
  BY <1>10 DEF RebuiltRow
<1>14. \A r \in C : \E i \in 1..m : r = RebuiltRow(order, i)
  BY <1>4, <1>9 DEF Rebuilt
<1>15. \A k, f, g : Trail(k, f, g) => Trail(k, f, g)'
  BY <1>5 DEF Trail
<1>16. ASSUME NEW i \in 1..m
       PROVE  \E f, g : Trail(i, f, g) /\ g[i] = h[i]
  <2> DEFINE f == [j \in 1..i |-> Entry(order[j])]
  <2>1. \A j \in 1..i : j \in 1..m
    OBVIOUS
  <2>2. f \in [1..i -> written]
    BY <1>6, <1>9, <2>1
  <2>3. Hashes(i, f, h)
    <3>1. \A j \in 1..i : f[j].by = order[j].by /\ f[j].ts = order[j].ts
      BY DEF Entry
    <3> QED BY <1>11, <2>1, <3>1 DEF Hashes
  <2>4. ASSUME NEW j \in 1..i, NEW l \in 1..i, f[j] = f[l]
        PROVE  j = l
    <3>1. order[j].id = order[l].id
      BY <2>4 DEF Entry
    <3>2. order[j] \in log /\ order[l] \in log
      BY <1>6, <1>9, <2>1
    <3>3. order[j] = order[l]
      BY <3>1, <3>2 DEF ChainInv, Counted
    <3> QED BY <1>7, <1>9, <2>1, <3>3, OrdersInjective
  <2> HIDE DEF f
  <2> QED BY <2>2, <2>3, <2>4 DEF Trail
<1>17. ASSUME NEW b \in C
       PROVE  /\ b.ts >= cutoff
              /\ \A j \in 1..b.seq : \E c \in C : c.seq = j
              /\ \E f, g : Trail(b.seq, f, g)' /\ g[b.seq] = b.hash
              /\ b.hash = compute_hash(b.seq, b.by, b.ts, b.prev)
  <2>1. PICK i \in 1..m : b = RebuiltRow(order, i)
    BY <1>14
  <2>2. b.seq = i /\ b.ts = order[i].ts /\ b.hash = h[i]
    BY <1>13, <2>1
  <2>3. b.ts >= cutoff
    BY <1>6, <1>9, <2>2
  <2>4. \A j \in 1..i : RebuiltRow(order, j) \in C /\ RebuiltRow(order, j).seq = j
    <3>1. \A j \in 1..i : j \in 1..m
      OBVIOUS
    <3> QED BY <1>12, <1>13, <3>1
  <2>5. \E f, g : Trail(i, f, g)' /\ g[i] = h[i]
    BY <1>15, <1>16
  <2>6. b.hash = compute_hash(b.seq, b.by, b.ts, b.prev)
    BY <1>11, <1>13, <2>1
  <2> QED BY <2>2, <2>3, <2>4, <2>5, <2>6
<1>18. BaseOK(C)'
  BY <1>3, <1>4, <1>5, <1>17 DEF BaseOK
<1>19. log' \ C \subseteq log \ snapshot[Scheduler]
  BY <1>3, <1>4
<1>20. \A e, ts : Told(B, e, ts) => Told(C, e, ts)'
  BY <1>5, <1>19 DEF Told
<1>21. RowsOK(C)'
  <2> SUFFICES ASSUME NEW r \in log' \ C
               PROVE  /\ \E f, g : /\ Trail(r.seq - 1, f, g)'
                                   /\ g[r.seq - 1] = r.prev
                                   /\ \A i \in 1..(r.seq - 1) : Told(C, f[i], r.ts)' /\ f[i].id < r.id
                      /\ r.seq = 1 => \A e \in written' : e.by = r.by /\ e.ts = r.ts => e.id >= r.id
    BY DEF RowsOK
  <2>1. r \in log \ B
    BY <1>1, <1>5, <1>19 DEF BaseOK
  <2>2. PICK f, g : /\ Trail(r.seq - 1, f, g)
                    /\ g[r.seq - 1] = r.prev
                    /\ \A i \in 1..(r.seq - 1) : Told(B, f[i], r.ts) /\ f[i].id < r.id
    BY <1>1, <2>1 DEF RowsOK
  <2>3. Trail(r.seq - 1, f, g)' /\ \A i \in 1..(r.seq - 1) : Told(C, f[i], r.ts)'
    BY <1>15, <1>20, <2>2
  <2>4. r.seq = 1 => \A e \in written' : e.by = r.by /\ e.ts = r.ts => e.id >= r.id
    BY <1>1, <1>5, <2>1 DEF RowsOK
  <2> QED BY <2>2, <2>3, <2>4
<1>22. LinksOK(C)'
  <2> SUFFICES ASSUME NEW q \in Process, pc'[q] = "insert" PROVE Linked(C, q)'
    BY DEF LinksOK, Linked
  <2>1. pc[q] = "insert"
    BY <1>5
  <2>2. PICK l : l = link[q]
    OBVIOUS
  <2>3. PICK f, g : /\ Trail(l.seq - 1, f, g)
                    /\ g[l.seq - 1] = l.prev
                    /\ \A i \in 1..(l.seq - 1) : Told(B, f[i], l.ts)
    BY <1>1, <2>1, <2>2 DEF LinksOK
  <2>4. Trail(l.seq - 1, f, g)' /\ \A i \in 1..(l.seq - 1) : Told(C, f[i], l.ts)'
    BY <1>15, <1>20, <2>3
  <2>5. l.seq = 1 => \A e \in written' : e.by = q => e.ts # l.ts
    BY <1>1, <1>5, <2>1, <2>2 DEF LinksOK
  <2>6. link'[q] = l
    BY <1>5, <2>2
  <2> QED BY <2>3, <2>4, <2>5, <2>6 DEF Linked, Trail, Told
<1>23. HashesOK'
  BY <1>0, <1>3, <1>4, <1>17 DEF HashesOK
<1>24. LockingOK'
  BY <1>0, <1>5 DEF LockingOK
<1>25. ViewOK(C)' /\ C \in SUBSET log'
  BY <1>3, <1>4, <1>18, <1>21, <1>22 DEF ViewOK
<1> QED BY <1>23, <1>24, <1>25 DEF BreakInv

LEMMA BreakStays ==
  ASSUME ChainInv, BreakInv, UNCHANGED <<log, pc, snapshot, link, cutoff, written, purged>>
  PROVE  BreakInv'
<1>1. HashesOK' /\ LockingOK'
  BY DEF BreakInv, HashesOK, LockingOK
<1>2. PICK B \in SUBSET log : BaseOK(B) /\ RowsOK(B) /\ LinksOK(B)
  BY DEF BreakInv, ViewOK
<1>3. BaseOK(B)' /\ RowsOK(B)'
  BY <1>2, ReadingKeeps DEF BreakInv
<1>4. ASSUME NEW p \in Process, pc'[p] = "insert" PROVE Linked(B, p)'
  <2>1. Linked(B, p)
    BY <1>2, <1>4, LinkedMeans
  <2> QED BY <1>2, <2>1, OthersLinked DEF BreakInv
<1>5. LinksOK(B)'
  BY <1>4 DEF LinksOK, Linked
<1> QED BY <1>1, <1>2, <1>3, <1>5 DEF BreakInv, ViewOK

LEMMA BreakStep ==
  ASSUME ChainInv, BreakInv, [Next]_auditVars
  PROVE  BreakInv'
<1>1. CASE Tick
  BY <1>1, BreakStays DEF Tick
<1>2. CASE purge_before
  BY <1>2, BreakPurgeReads, BreakPurges DEF purge_before
<1>3. ASSUME NEW p \in Process, record(p) PROVE BreakInv'
  BY <1>3, BreakReads, BreakInserts DEF record
<1>4. CASE UNCHANGED auditVars
  BY <1>4, BreakStays DEF auditVars
<1> QED BY <1>1, <1>2, <1>3, <1>4 DEF Next

-----------------------------------------------------------------------------
\* Ids, sequence numbers, stamps and locks stay what the code takes them for,
\* on either database and under any interleaving (repositories.py:347-458).
THEOREM AuditTypeCorrect == Spec => []TypeOK
<1>1. Init => ChainInv
  BY ChainInit
<1>2. ChainInv /\ [Next]_auditVars => ChainInv'
  BY ChainStep
<1>3. ChainInv => TypeOK
  BY DEF ChainInv
<1> QED BY <1>1, <1>2, <1>3, PTL DEF Spec

\* As long as no two operations overlap, verification succeeds after any
\* number of appends and purges of any number of rows
\* (repositories.py:347-458).
THEOREM SerialChainHolds == Spec => []SerialChainVerifies
<1>1. Init => ChainInv /\ Serial
  BY ChainInit, SerialInit
<1>2. ChainInv /\ Serial /\ [Next]_auditVars => (ChainInv /\ Serial)'
  BY ChainStep, SerialStep
<1>3. Serial => SerialChainVerifies
  BY DEF Serial, SerialChainVerifies
<1> QED BY <1>1, <1>2, <1>3, PTL DEF Spec

\* A purge that no append overlaps leaves a chain that verifies, whatever
\* forks and gaps the log had and however long it is
\* (repositories.py:449-456).
THEOREM PurgesRepair == Spec => PurgeRepairs
<1>1. Init => ChainInv
  BY ChainInit
<1>2. ChainInv /\ [Next]_auditVars => ChainInv'
  BY ChainStep
<1>3. ChainInv /\ [Next]_auditVars
      => [purge_commits /\ log = snapshot[Scheduler] => verify_chain']_auditVars
  BY PurgeVerifies
<1> QED BY <1>1, <1>2, <1>3, PTL DEF Spec, PurgeRepairs

\* No append ever makes a broken log verify again: a gap in the chain is
\* never filled by a row with the hash of the one that is missing, however
\* writers, clocks and purges interleave (repositories.py:347-458).
THEOREM BreaksStayVisible == Spec => BreakStaysVisible
<1>1. Init => ChainInv /\ BreakInv
  BY ChainInit, BreakInit
<1>2. ChainInv /\ BreakInv /\ [Next]_auditVars => (ChainInv /\ BreakInv)'
  BY ChainStep, BreakStep
<1>3. ChainInv /\ BreakInv /\ [Next]_auditVars
      => [~ verify_chain /\ verify_chain' => purge_commits]_auditVars
  <2> SUFFICES ASSUME ChainInv, BreakInv, Next, ~ verify_chain, verify_chain', ~ purge_commits
               PROVE  FALSE
    OBVIOUS
  <2>1. CASE \E p \in Process : insert_record(p)
    BY <2>1, InsertNeverRepairs DEF BreakInv, ViewOK
  <2>2. CASE log' = log
    BY <2>2 DEF verify_chain
  <2> QED BY <2>1, <2>2 DEF Next, Tick, purge_before, purge_reads, record, read_tail, select_tail,
                            lock_tail
<1> QED BY <1>1, <1>2, <1>3, PTL DEF Spec, BreakStaysVisible
=============================================================================
