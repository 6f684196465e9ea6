------------------------------ MODULE AuditChain ------------------------------
(***************************************************************************)
(* The audit log and its hash chain: AuditLogRepository.record, called by  *)
(* every node, executor and approval request, verify_chain, and the        *)
(* nightly retention purge, which deletes expired rows and renumbers and   *)
(* rehashes the rest.                                                      *)
(*                                                                         *)
(* record reads the last row, then inserts.  On PostgreSQL the read is     *)
(* SELECT ... FOR UPDATE: its snapshot is taken when the statement starts, *)
(* it waits while another transaction holds the row, and then returns the  *)
(* current version of that same row.  On SQLite it is a plain read.        *)
(***************************************************************************)
EXTENDS Integers, FiniteSets

CONSTANTS
  Writer,      \* coroutines that write audit records
  Scheduler,   \* the retention job (max_instances = 1)
  Dialects,    \* databases to consider
  Retention,   \* audit_log_retention_days, in clock ticks
  MaxRecords,  \* bound on the records of the writers
  MaxClock     \* bound on the clock

ASSUME AuditAssumption ==
  /\ Scheduler \notin Writer
  /\ Dialects \subseteq {"sqlite", "postgresql"}
  /\ Retention \in Nat \ {0}
  /\ MaxRecords \in Nat
  /\ MaxClock \in Nat

Process == Writer \cup {Scheduler}

VARIABLES
  dialect,     \* the database in use
  clock,       \* utcnow, in ticks
  log,         \* rows of audit_logs
  pc,          \* where each process awaits
  snapshot,    \* rows its SELECT saw
  link,        \* seq, prev_hash and ts of the row it is about to insert
  locks,       \* <<row id, process>>: row locks
  cutoff,      \* ts before which the running purge deletes
  written,     \* every record committed so far
  purged,      \* the highest cutoff a purge has applied
  started,     \* records the writers have started
  overlapped   \* some operation began while another was under way

auditVars == <<dialect, clock, log, pc, snapshot, link, locks, cutoff,
               written, purged, started, overlapped>>

GENESIS == <<>>

\* SHA-256 of the canonical content, taken to be free of collisions
compute_hash(seq, by, ts, prev) == <<seq, by, ts, prev>>

NoLink == [seq |-> 0, prev |-> GENESIS, ts |-> 0]

Init ==
  /\ dialect \in Dialects
  /\ clock = 0
  /\ log = {}
  /\ pc = [p \in Process |-> "idle"]
  /\ snapshot = [p \in Process |-> {}]
  /\ link = [p \in Process |-> NoLink]
  /\ locks = {}
  /\ cutoff = - Retention
  /\ written = {}
  /\ purged = - Retention
  /\ started = 0
  /\ overlapped = FALSE

Tick ==
  /\ clock < MaxClock
  /\ clock' = clock + 1
  /\ UNCHANGED <<dialect, log, pc, snapshot, link, locks, cutoff, written,
                 purged, started, overlapped>>
-----------------------------------------------------------------------------
(* record                                                                  *)

Busy(p) == pc[p] \in {"lock", "insert", "purge"}

NoteOverlap(p) == overlapped' = (overlapped \/ \E q \in Process \ {p} : Busy(q))

\* A writer calls record; the scheduler calls it once after each purge
CallsRecord(p) ==
  /\ pc[p] = IF p = Scheduler THEN "audit" ELSE "idle"
  /\ p \in Writer => started < MaxRecords
  /\ started' = IF p \in Writer THEN started + 1 ELSE started
  /\ NoteOverlap(p)

\* The rows ORDER BY seq DESC LIMIT 1 may return
Newest(rows) == {r \in rows : \A q \in rows : q.seq <= r.seq}

After(r) == [seq |-> r.seq + 1, prev |-> r.hash, ts |-> clock]

\* MUTANT: the first row counts from zero
GenesisAtZero == [seq |-> 0, prev |-> GENESIS, ts |-> clock]

Genesis == [seq |-> 1, prev |-> GENESIS, ts |-> clock]

\* SQLite: the tail is read, nothing is held until the insert
read_tail(p) ==
  /\ dialect = "sqlite"
  /\ CallsRecord(p)
  /\ \/ log = {} /\ link' = [link EXCEPT ![p] = Genesis]
     \/ \E r \in Newest(log) : link' = [link EXCEPT ![p] = After(r)]
  /\ pc' = [pc EXCEPT ![p] = "insert"]
  /\ UNCHANGED <<dialect, clock, log, snapshot, locks, cutoff, written, purged>>

\* PostgreSQL: the statement starts ...
select_tail(p) ==
  /\ dialect = "postgresql"
  /\ CallsRecord(p)
  /\ snapshot' = [snapshot EXCEPT ![p] = log]
  /\ pc' = [pc EXCEPT ![p] = "lock"]
  /\ UNCHANGED <<dialect, clock, log, link, locks, cutoff, written, purged>>

\* The rows of a snapshot that have not been deleted since, as they were
Surviving(rows) == {s \in rows : \E r \in log : r.id = s.id}

\* ... and returns the current version of the newest surviving row, locked
lock_tail(p) ==
  /\ pc[p] = "lock"
  /\ \/ /\ Surviving(snapshot[p]) = {}
        /\ link' = [link EXCEPT ![p] = Genesis]
        /\ UNCHANGED locks
     \/ \E s \in Newest(Surviving(snapshot[p])), r \in log :
          /\ r.id = s.id
          /\ \A q \in Process : <<r.id, q>> \notin locks
          /\ locks' = locks \cup {<<r.id, p>>}
          /\ link' = [link EXCEPT ![p] = After(r)]
  /\ snapshot' = [snapshot EXCEPT ![p] = {}]
  /\ pc' = [pc EXCEPT ![p] = "insert"]
  /\ UNCHANGED <<dialect, clock, log, cutoff, written, purged, started, overlapped>>

\* The row a process inserts; ids are assigned by the database
NewRow(p) ==
  [id |-> Cardinality(written) + 1, seq |-> link[p].seq, by |-> p, ts |-> link[p].ts,
   prev |-> link[p].prev,
   hash |-> compute_hash(link[p].seq, p, link[p].ts, link[p].prev)]

\* What a record says, whatever its place in the chain
Entry(r) == [id |-> r.id, by |-> r.by, ts |-> r.ts]

\* MUTANT: a row with the same seq is overwritten
insert_or_replace(p) ==
  /\ pc[p] = "insert"
  /\ log' = {r \in log : r.seq # link[p].seq} \cup {NewRow(p)}
  /\ written' = written \cup {Entry(NewRow(p))}
  /\ locks' = {l \in locks : l[2] # p}
  /\ link' = [link EXCEPT ![p] = NoLink]
  /\ pc' = [pc EXCEPT ![p] = "idle"]
  /\ UNCHANGED <<dialect, clock, snapshot, cutoff, purged, started, overlapped>>

insert_record(p) ==
  /\ pc[p] = "insert"
  /\ log' = log \cup {NewRow(p)}
  /\ written' = written \cup {Entry(NewRow(p))}
  /\ locks' = {l \in locks : l[2] # p}
  /\ link' = [link EXCEPT ![p] = NoLink]
  /\ pc' = [pc EXCEPT ![p] = "idle"]
  /\ UNCHANGED <<dialect, clock, snapshot, cutoff, purged, started, overlapped>>

record(p) == read_tail(p) \/ select_tail(p) \/ lock_tail(p) \/ insert_record(p)
-----------------------------------------------------------------------------
(* purge_before, called by _purge_audited_logs                             *)

\* MUTANT: rows exactly at the cutoff are deleted too
KeptAfterCutoff(rows) == {r \in rows : r.ts > cutoff}

Kept(rows) == {r \in rows : r.ts >= cutoff}

purge_reads ==
  /\ pc[Scheduler] = "idle"
  /\ \E r \in log : r.ts < clock - Retention
  /\ cutoff' = clock - Retention
  /\ snapshot' = [snapshot EXCEPT ![Scheduler] = log]
  /\ pc' = [pc EXCEPT ![Scheduler] = "purge"]
  /\ NoteOverlap(Scheduler)
  /\ UNCHANGED <<dialect, clock, log, link, locks, written, purged, started>>

\* The orders ORDER BY seq may return rows in
Orders(rows) ==
  {order \in [1..Cardinality(rows) -> rows] :
     /\ \A r \in rows : \E i \in DOMAIN order : order[i] = r
     /\ \A i, j \in DOMAIN order : i < j => order[i].seq <= order[j].seq}

\* MUTANT: the kept rows are renumbered and not rehashed
RebuiltKeepingHashes(order) ==
  {[id |-> order[i].id, seq |-> i, by |-> order[i].by, ts |-> order[i].ts,
    prev |-> order[i].prev, hash |-> order[i].hash] : i \in DOMAIN order}

\* The hashes of the new chain, from the genesis value on
Rehashed(order) ==
  LET hash[i \in {0} \cup DOMAIN order] ==
        IF i = 0 THEN GENESIS ELSE compute_hash(i, order[i].by, order[i].ts, hash[i - 1])
  IN  hash

RebuiltRow(order, i) ==
  [id |-> order[i].id, seq |-> i, by |-> order[i].by, ts |-> order[i].ts,
   prev |-> Rehashed(order)[i - 1], hash |-> Rehashed(order)[i]]

\* The kept rows renumbered from 1 and rehashed
Rebuilt(order) == {RebuiltRow(order, i) : i \in DOMAIN order}

\* The UPDATEs and DELETEs wait for the rows that a record call has locked
PurgeMayWrite == \A l \in locks : \A r \in snapshot[Scheduler] : r.id # l[1]

\* MUTANT: the expired rows are not deleted (see the comment at line 441)
purge_without_delete ==
  /\ pc[Scheduler] = "purge"
  /\ PurgeMayWrite
  /\ \E order \in Orders(Kept(snapshot[Scheduler])) :
       log' = (log \ Kept(snapshot[Scheduler])) \cup Rebuilt(order)
  /\ purged' = cutoff
  /\ snapshot' = [snapshot EXCEPT ![Scheduler] = {}]
  /\ pc' = [pc EXCEPT ![Scheduler] = "audit"]
  /\ UNCHANGED <<dialect, clock, link, locks, cutoff, written, started, overlapped>>

purge_commits ==
  /\ pc[Scheduler] = "purge"
  /\ PurgeMayWrite
  /\ \E order \in Orders(Kept(snapshot[Scheduler])) :
       log' = (log \ snapshot[Scheduler]) \cup Rebuilt(order)
  /\ purged' = cutoff
  /\ snapshot' = [snapshot EXCEPT ![Scheduler] = {}]
  /\ pc' = [pc EXCEPT ![Scheduler] = "audit"]
  /\ UNCHANGED <<dialect, clock, link, locks, cutoff, written, started, overlapped>>

purge_before == purge_reads \/ purge_commits
-----------------------------------------------------------------------------
Next == Tick \/ purge_before \/ \E p \in Process : record(p)

Spec == Init /\ [][Next]_auditVars
-----------------------------------------------------------------------------
(* Properties                                                              *)

\* verify_chain answers valid: sorted by seq the rows count from 1, each
\* holds its predecessor's hash, and each hash is the one of its content
verify_chain ==
  /\ \A r, q \in log : r.seq = q.seq => r = q
  /\ \A r \in log :
       /\ r.hash = compute_hash(r.seq, r.by, r.ts, r.prev)
       /\ IF r.seq = 1 THEN r.prev = GENESIS
          ELSE \E q \in log : q.seq = r.seq - 1 /\ q.hash = r.prev

Row == [id : Nat, seq : Nat \ {0}, by : Process, ts : 0..clock]

TypeOK ==
  /\ dialect \in Dialects
  /\ clock \in 0..MaxClock
  /\ \A r \in log : [id |-> r.id, seq |-> r.seq, by |-> r.by, ts |-> r.ts] \in Row
  /\ pc \in [Process -> {"idle", "lock", "insert", "purge", "audit"}]
  /\ \A p \in Process : link[p].seq \in Nat /\ link[p].ts \in 0..clock
  /\ \A l \in locks : l[1] \in Nat /\ l[2] \in Process /\ pc[l[2]] = "insert"
  /\ written \subseteq [id : Nat, by : Process, ts : 0..clock]
  /\ purged <= cutoff /\ cutoff <= clock - Retention
  /\ started \in 0..MaxRecords
  /\ overlapped \in BOOLEAN

\* As long as no two operations overlap, verification succeeds at any time,
\* through every sequence of appends and purges (repositories.py:347-458).
SerialChainVerifies == ~ overlapped => verify_chain

\* Appends and purges in any order neither lose nor alter a record younger
\* than the retention period, and the log holds nothing that was not
\* recorded (repositories.py:434-443).
RecordsKept ==
  /\ \A e \in written : e.ts >= purged => \E r \in log : Entry(r) = e
  /\ \A r \in log : Entry(r) \in written

\* A purge that no append overlaps leaves a chain that verifies, whatever
\* forks and gaps it found (repositories.py:449-456).
PurgeRepairs ==
  [][purge_commits /\ log = snapshot[Scheduler] => verify_chain']_auditVars

\* A break is never papered over: only a purge makes a log verify again.
BreakStaysVisible ==
  [][~ verify_chain /\ verify_chain' => purge_commits]_auditVars

\* Claim of a comment that the code does not keep: locking the tail keeps
\* concurrent appends from extending the same row (repositories.py:350).
LockPreventsForks ==
  \A r, q \in log : r.prev = q.prev /\ r.prev # GENESIS => r = q
=============================================================================
