------------------------- MODULE IngestTransaction -------------------------
(***************************************************************************)
(* The protected ingestion transaction of fireparq over an S3 dataset:     *)
(* journal (Writing) -> parts -> journal (Committed) -> one Delta commit   *)
(* per table, `blocks` last -> authority -> cursor mirror -> journal       *)
(* cleared.  One process at a time holds the bucket's owner record; it may *)
(* fail, lose responses or die between any two requests, and every start   *)
(* recovers the journal before it streams.  Maintenance (OPTIMIZE, VACUUM) *)
(* rewrites the same tables without holding the owner record.              *)
(*                                                                         *)
(* A request that the process stopped waiting for stays in `partOps` or    *)
(* `logPuts` and may still take effect at any later moment.                *)
(***************************************************************************)
EXTENDS Integers, Sequences, FiniteSets

CONSTANTS
    Tables,         \* the dataset's Delta tables
    Blocks,         \* LAST_TABLE, the table that commits last
    Shapes,         \* the sets of tables a flushed prefix may have rows for
    Deliveries,     \* what the stream may deliver for one prefix: a restart
                    \* may be served other blocks than the failed attempt was
    BlockNum,       \* the block number of the event at an ordinal
    Stops,          \* the exclusive stop blocks a request may ask for
    OriginStart,    \* the stream's origin_start
    Publications,   \* FlushConcurrency.publications
    FullVacuum,     \* whether the weekly full VACUUM runs
    ZeroRetention,  \* whether VACUUM_RETENTION_HOURS is 0
    MaxOrdinal,     \* bound: accepted events
    MaxCompactions, \* bound: OPTIMIZE runs
    MaxFaults       \* bound: crashes, errors and lost responses

ASSUME TablesAssumption ==
    /\ IsFiniteSet(Tables)
    /\ Blocks \in Tables
    /\ Shapes \subseteq SUBSET Tables

ASSUME NumbersAssumption ==
    /\ MaxOrdinal \in Nat
    /\ BlockNum \in [1..MaxOrdinal -> Nat]
    /\ Stops \subseteq Nat
    /\ OriginStart \in Nat
    /\ Publications \in Nat \ {0}
    /\ MaxCompactions \in Nat
    /\ MaxFaults \in Nat

ASSUME VacuumAssumption == FullVacuum \in BOOLEAN /\ ZeroRetention \in BOOLEAN

VARIABLES
    auth,       \* state.json: the authority checkpoint, or NoCheckpoint
    pending,    \* pending.json: the journalled transaction, or NoPending
    mirror,     \* the cursor mirror's checkpoint, or NoCheckpoint
    files,      \* the data files in the object store
    log,        \* each table's _delta_log
    owner,      \* the bucket's owner record
    pc,         \* where the process is
    snap,       \* the log version each open table was loaded at (0: not open)
    step,       \* each table's progress in the current phase
    at,         \* the log version each table's commit request names
    err,        \* the phase has failed and is draining
    latch,      \* S3Ownership.mutation_uncertain
    partOps,    \* abandoned part PUTs and DELETEs that may still take effect
    logPuts,    \* abandoned log PUTs that may still take effect
    job,        \* each table's running OPTIMIZE
    made,       \* OPTIMIZE runs started
    faults,     \* faults so far
    installed,  \* history: the batches the authority has acknowledged
    refusal     \* history: why a start or flush was refused

durable == <<auth, pending, mirror, owner>>
process == <<pc, snap, step, at, err, latch>>
maintenance == <<job, made>>
history == <<installed, refusal>>
vars == <<durable, files, log, process, partOps, logPuts, maintenance,
          faults, history>>

-----------------------------------------------------------------------------
(* Checkpoints, batches, files and log entries.                            *)

NoId == <<-1, -1>>
NoCheckpoint == [ordinal |-> -1, completed |-> 0, previous |-> NoId]
NoBatch == [first |-> 0, last |-> 0, tabs |-> {}, data |-> 0]
NoPending == [phase |-> "None", pred |-> NoCheckpoint, batch |-> NoBatch,
              receipts |-> {}]
NoJob == [base |-> 0, src |-> {}, out |-> {}]

\* A checkpoint's digest covers its contents; two checkpoints of one authority
\* chain differ in ordinal or completed_stop.
Id(c) == <<c.ordinal, c.completed>>

Initial == [ordinal |-> 0, completed |-> 0, previous |-> NoId]

\* Checkpoint::advance: what installing the pending transaction leads to.
Target(p) == [ordinal   |-> p.batch.last,
              completed |-> p.pred.completed,
              previous  |-> Id(p.pred)]

\* Fault variant: the next prefix starts at the acknowledged ordinal itself.
BatchesOverlapping(c) ==
    {[first |-> c.ordinal, last |-> l, tabs |-> s, data |-> d] :
        l \in c.ordinal + 1 .. MaxOrdinal, s \in Shapes, d \in Deliveries}

\* The accepted prefixes a flush may take from `c`, with what was delivered.
Batches(c) ==
    {[first |-> c.ordinal + 1, last |-> l, tabs |-> s, data |-> d] :
        l \in c.ordinal + 1 .. MaxOrdinal, s \in Shapes, d \in Deliveries}

\* A data file: the batches whose rows it holds; `by` is 0 for a writer part
\* (whose name is derived from the batch) and the OPTIMIZE run otherwise.
Part(b, t) == [table |-> t, rows |-> {b}, by |-> 0]

\* A transaction's commit to one table, and a maintenance commit.
AppendEntry(b, t) == [txn |-> b.last, add |-> {Part(b, t)}, rem |-> {}]
MaintenanceEntry(a, r) == [txn |-> 0, add |-> a, rem |-> r]

Versions(l) == 1..Len(l)

\* The stream's `txn` as of version n of a log (0: none).
TxnAt(l, n) ==
    LET own == {i \in 1..n : l[i].txn # 0}
    IN  IF own = {} THEN 0
        ELSE l[CHOOSE i \in own : \A j \in own : j <= i].txn

\* The files of the table: added, and not removed by a later commit.
Active(l) ==
    {f \in UNION {l[i].add : i \in Versions(l)} :
        \E i \in Versions(l) :
            /\ f \in l[i].add
            /\ \A j \in Versions(l) : j > i => f \notin l[j].rem}
Tombstones(l) == (UNION {l[i].rem : i \in Versions(l)}) \ Active(l)
\* The batches whose rows a reader of the table sees.
Rows(l) == UNION {f.rows : f \in Active(l)}

-----------------------------------------------------------------------------
(* What the process knows and does.                                        *)

Off == [t \in Tables |-> "off"]
Never == [t \in Tables |-> 0]

\* The tables of the current phase that are not in `s`.
Queue(s) == [t \in Tables |-> IF t \in s THEN "todo" ELSE "off"]
With(x) == {t \in Tables : step[t] = x}
\* Committing to the logs: from a flush, or rolling forward at a start.
Committing == pc \in {"commit", "forward"}

\* A fault happens while the bound allows it.
Fault == faults < MaxFaults /\ faults' = faults + 1

\* An early return of recovery or of a flush that no retry can clear.
Refuse(why) == pc' = "failing" /\ refusal' = why

\* Nothing that outlives the process is left in its memory.
Forget ==
    /\ pc' = "down"
    /\ snap' = Never
    /\ step' = Off
    /\ at' = Never
    /\ err' = FALSE
    /\ latch' = FALSE

\* The requests the process is waiting for.
LivePartOps ==
    {[do |-> IF pc = "writing" THEN "put" ELSE "delete",
      file |-> Part(pending.batch, t)] :
        t \in IF pc \in {"writing", "rollback"} THEN With("sent") ELSE {}}
LiveLogPuts ==
    {[table |-> t, version |-> at[t], entry |-> AppendEntry(pending.batch, t)] :
        t \in IF Committing THEN With("sent") ELSE {}}

Init ==
    /\ auth = NoCheckpoint /\ pending = NoPending /\ mirror = NoCheckpoint
    /\ files = {} /\ log = [t \in Tables |-> <<>>]
    /\ owner = "free"
    /\ pc = "down" /\ snap = Never /\ step = Off /\ at = Never
    /\ err = FALSE /\ latch = FALSE
    /\ partOps = {} /\ logPuts = {}
    /\ job = [t \in Tables |-> NoJob] /\ made = 0
    /\ faults = 0
    /\ installed = {} /\ refusal = "none"

-----------------------------------------------------------------------------
(* Start: ownership, authority, tables.                                    *)

Acquire ==
    /\ pc = "down" /\ owner = "free"
    /\ owner' = "held"
    /\ pc' = "opening"
    /\ UNCHANGED <<auth, pending, mirror, files, log, snap, step, at, err,
                   latch, partOps, logPuts, maintenance, faults, history>>

\* A new root gets the initial authority; any existing mirror prevents it.
Initialize ==
    /\ pc = "opening" /\ auth = NoCheckpoint
    /\ IF mirror = NoCheckpoint
       THEN auth' = Initial /\ UNCHANGED <<pc, refusal>>
       ELSE Refuse("mirror_exists") /\ UNCHANGED auth
    /\ UNCHANGED <<pending, mirror, owner, files, log, snap, step, at, err,
                   latch, partOps, logPuts, maintenance, faults, installed>>

\* A missing table is created only while the stream has accepted nothing.
OpenTable(t) ==
    /\ pc = "opening" /\ auth # NoCheckpoint /\ snap[t] = 0
    /\ IF log[t] = <<>> /\ auth.ordinal # 0
       THEN Refuse("no_log") /\ UNCHANGED <<log, snap>>
       ELSE /\ log' = IF log[t] = <<>>
                      THEN [log EXCEPT ![t] = <<MaintenanceEntry({}, {})>>]
                      ELSE log
            /\ snap' = [snap EXCEPT ![t] = Len(log'[t])]
            /\ UNCHANGED <<pc, refusal>>
    /\ UNCHANGED <<durable, files, step, at, err, latch, partOps, logPuts,
                   maintenance, faults, installed>>

\* A Committed transaction whose authority has not advanced.
Behind == pending.phase = "Committed" /\ Id(auth) = Id(pending.pred)

\* Its tables whose log held it when the table was opened.
Holding ==
    {t \in pending.batch.tabs :
        Behind /\ TxnAt(log[t], snap[t]) = pending.batch.last}
LogAhead ==
    \E t \in Tables \ Holding : TxnAt(log[t], snap[t]) > auth.ordinal

-----------------------------------------------------------------------------
(* Recovery: every table's `txn` is checked before anything changes.       *)

PartsIn(s) == {Part(pending.batch, t) : t \in s}

\* Fault variant: any pending journal is rolled back.
RecoverAnyByRollback ==
    /\ pending # NoPending
    /\ pc' = "rollback"
    /\ step' = Queue({t \in pending.receipts : Part(pending.batch, t) \in files})
    /\ UNCHANGED refusal

\* A Writing journal is rolled back: a published part without a receipt is
\* refused before any file is deleted.
RecoverWriting ==
    /\ pending.phase = "Writing"
    /\ IF \E t \in pending.batch.tabs \ pending.receipts :
            Part(pending.batch, t) \in files
       THEN Refuse("unreceipted_part") /\ UNCHANGED step
       ELSE /\ pc' = "rollback"
            /\ step' = Queue({t \in pending.receipts :
                                Part(pending.batch, t) \in files})
            /\ UNCHANGED refusal

\* Fault variant: every part of the transaction is verified again, also those
\* the logs already hold.
RecoverVerifyingAll ==
    LET uncommitted == pending.batch.tabs \ Holding
    IN  /\ pending.phase = "Committed"
        /\ IF PartsIn(pending.batch.tabs) \subseteq files
           THEN IF Behind
                THEN /\ pc' = IF uncommitted = {} THEN "advance" ELSE "forward"
                     /\ step' = Queue(uncommitted)
                     /\ UNCHANGED refusal
                ELSE pc' = "mirror" /\ UNCHANGED <<step, refusal>>
           ELSE Refuse("part_missing") /\ UNCHANGED step

\* A Committed journal is rolled forward into the tables whose logs lack it;
\* one missing part stops recovery with nothing changed.
RecoverCommitted ==
    LET uncommitted == pending.batch.tabs \ Holding
    IN  /\ pending.phase = "Committed"
        /\ IF ~Behind \/ uncommitted = {}
           THEN /\ pc' = IF Behind THEN "advance" ELSE "mirror"
                /\ UNCHANGED <<step, refusal>>
           ELSE IF PartsIn(uncommitted) \subseteq files
                THEN pc' = "forward" /\ step' = Queue(uncommitted)
                     /\ UNCHANGED refusal
                ELSE Refuse("part_missing") /\ UNCHANGED step

CheckProgress ==
    /\ pc = "opening" /\ \A t \in Tables : snap[t] # 0
    /\ \/ LogAhead /\ Refuse("log_ahead") /\ UNCHANGED step
       \/ /\ ~LogAhead
          /\ \/ /\ pending = NoPending
                /\ pc' = "mirror" /\ UNCHANGED <<step, refusal>>
             \/ RecoverWriting
             \/ RecoverCommitted
    /\ UNCHANGED <<durable, files, log, snap, at, err, latch, partOps,
                   logPuts, maintenance, faults, installed>>

\* rollback_writing deletes the verified parts one after another.
SendDelete(t) ==
    /\ pc = "rollback" /\ step[t] = "todo" /\ With("sent") = {}
    /\ ~latch
    /\ step' = [step EXCEPT ![t] = "sent"]
    /\ UNCHANGED <<durable, files, log, pc, snap, at, err, latch, partOps,
                   logPuts, maintenance, faults, history>>

DeleteDone(t) ==
    /\ pc = "rollback" /\ step[t] = "sent"
    /\ files' = files \ {Part(pending.batch, t)}
    /\ step' = [step EXCEPT ![t] = "done"]
    /\ UNCHANGED <<durable, log, pc, snap, at, err, latch, partOps, logPuts,
                   maintenance, faults, history>>

\* An unresolved DELETE sets the latch and ends the start.
DeleteUnresolved(t) ==
    /\ pc = "rollback" /\ step[t] = "sent" /\ Fault
    /\ partOps' = partOps \cup LivePartOps
    /\ latch' = TRUE
    /\ step' = [step EXCEPT ![t] = "failed"]
    /\ pc' = "failing"
    /\ UNCHANGED <<durable, files, log, snap, at, err, logPuts, maintenance,
                   history>>

RollbackDone ==
    /\ pc = "rollback" /\ With("todo") = {} /\ With("sent") = {}
    /\ pc' = "clear"
    /\ UNCHANGED <<durable, files, log, snap, step, at, err, latch, partOps,
                   logPuts, maintenance, faults, history>>

-----------------------------------------------------------------------------
(* A flush: journal, receipts, parts.                                      *)

\* commit up to `begin`: no planned name may exist before Writing is durable.
Begin(b) ==
    /\ pc = "ready" /\ b \in Batches(auth)
    /\ IF \E t \in b.tabs : Part(b, t) \in files
       THEN Refuse("occupied") /\ UNCHANGED <<pending, step>>
       ELSE /\ pending' = [phase |-> "Writing", pred |-> auth, batch |-> b,
                           receipts |-> {}]
            /\ step' = Queue(b.tabs)
            /\ pc' = "writing"
            /\ UNCHANGED refusal
    /\ UNCHANGED <<auth, mirror, owner, files, log, snap, at, err, latch,
                   partOps, logPuts, maintenance, faults, installed>>

\* One journal write makes the receipts of the encoded parts `r` durable.
RecordReceipts(r) ==
    /\ pc = "writing" /\ ~err
    /\ r # {} /\ r \subseteq pending.batch.tabs \ pending.receipts
    /\ pending' = [pending EXCEPT !.receipts = @ \cup r]
    /\ UNCHANGED <<auth, mirror, owner, files, log, process, partOps, logPuts,
                   maintenance, faults, history>>

\* Fault variant: a part is published before its receipt is durable.
SendPartUnreceipted(t) ==
    /\ pc = "writing" /\ ~err /\ ~latch
    /\ step[t] = "todo"
    /\ Cardinality(With("sent")) < Publications
    /\ step' = [step EXCEPT ![t] = "sent"]
    /\ UNCHANGED <<durable, files, log, pc, snap, at, err, latch, partOps,
                   logPuts, maintenance, faults, history>>

\* The publication gate and the single conditional PUT of a part.
SendPart(t) ==
    /\ pc = "writing" /\ ~err /\ ~latch
    /\ step[t] = "todo" /\ t \in pending.receipts
    /\ Cardinality(With("sent")) < Publications
    /\ step' = [step EXCEPT ![t] = "sent"]
    /\ UNCHANGED <<durable, files, log, pc, snap, at, err, latch, partOps,
                   logPuts, maintenance, faults, history>>

\* The store takes the part, and its response or a readback proves it; a name
\* that exists is refused (412), which sets the latch.
PartPublished(t) ==
    /\ pc = "writing" /\ step[t] = "sent"
    /\ IF Part(pending.batch, t) \in files
       THEN /\ step' = [step EXCEPT ![t] = "failed"]
            /\ latch' = TRUE /\ err' = TRUE
            /\ UNCHANGED files
       ELSE /\ files' = files \cup {Part(pending.batch, t)}
            /\ step' = [step EXCEPT ![t] = "done"]
            /\ UNCHANGED <<latch, err>>
    /\ UNCHANGED <<durable, log, pc, snap, at, partOps, logPuts, maintenance,
                   faults, history>>

\* A 401/403 refusal is resolved: the request cannot take effect later.
PartRejected(t) ==
    /\ pc = "writing" /\ step[t] = "sent" /\ Fault
    /\ step' = [step EXCEPT ![t] = "failed"]
    /\ err' = TRUE
    /\ UNCHANGED <<durable, files, log, pc, snap, at, latch, partOps, logPuts,
                   maintenance, history>>

\* No readback showed the part: its PUT stays unresolved and sets the latch.
PartUnresolved(t) ==
    /\ pc = "writing" /\ step[t] = "sent" /\ Fault
    /\ partOps' = partOps \cup {[do |-> "put", file |-> Part(pending.batch, t)]}
    /\ step' = [step EXCEPT ![t] = "failed"]
    /\ latch' = TRUE /\ err' = TRUE
    /\ UNCHANGED <<durable, files, log, pc, snap, at, logPuts, maintenance,
                   history>>

\* Every part published: all are verified and the journal becomes Committed.
MarkCommitted ==
    /\ pc = "writing" /\ ~err
    /\ With("done") = pending.batch.tabs
    /\ IF PartsIn(pending.batch.tabs) \subseteq files
       THEN /\ pending' = [pending EXCEPT !.phase = "Committed"]
            /\ step' = Queue(pending.batch.tabs)
            /\ pc' = "commit"
            /\ UNCHANGED refusal
       ELSE Refuse("part_missing") /\ UNCHANGED <<pending, step>>
    /\ UNCHANGED <<auth, mirror, owner, files, log, snap, at, err, latch,
                   partOps, logPuts, maintenance, faults, installed>>

-----------------------------------------------------------------------------
(* The Delta commits: one conditional PUT of the next log version each.    *)

\* Fault variant: `blocks` is committed like any other table.
SendCommitAnyOrder(t) ==
    /\ Committing /\ ~err /\ step[t] = "todo"
    /\ Cardinality(With("sent")) < Publications
    /\ step' = [step EXCEPT ![t] = "sent"]
    /\ at' = [at EXCEPT ![t] = snap[t] + 1]
    /\ UNCHANGED <<durable, files, log, pc, snap, err, latch, partOps,
                   logPuts, maintenance, faults, history>>

\* At most Publications tables at a time, LAST_TABLE alone after the others.
SendCommit(t) ==
    /\ Committing /\ ~err /\ step[t] = "todo"
    /\ IF t = Blocks
       THEN With("todo") = {t} /\ With("sent") = {}
       ELSE Cardinality(With("sent")) < Publications
    /\ step' = [step EXCEPT ![t] = "sent"]
    /\ at' = [at EXCEPT ![t] = snap[t] + 1]
    /\ UNCHANGED <<durable, files, log, pc, snap, err, latch, partOps,
                   logPuts, maintenance, faults, history>>

Landed(t) ==
    log' = [log EXCEPT ![t] = Append(@, AppendEntry(pending.batch, t))]

\* The version was free, and the response arrives.
CommitLanded(t) ==
    /\ Committing /\ step[t] = "sent" /\ at[t] = Len(log[t]) + 1
    /\ Landed(t)
    /\ step' = [step EXCEPT ![t] = "done"]
    /\ snap' = [snap EXCEPT ![t] = at[t]]
    /\ UNCHANGED <<durable, files, pc, at, err, latch, partOps, logPuts,
                   maintenance, faults, history>>

\* The outcome is unknown: the commit landed and its response is lost, or it
\* is still on its way.  The latch is not set.
CommitUnresolved(t) ==
    /\ Committing /\ step[t] = "sent" /\ Fault
    /\ \/ at[t] = Len(log[t]) + 1 /\ Landed(t) /\ UNCHANGED logPuts
       \/ /\ logPuts' = logPuts \cup
                {[table |-> t, version |-> at[t],
                  entry |-> AppendEntry(pending.batch, t)]}
          /\ UNCHANGED log
    /\ step' = [step EXCEPT ![t] = "failed"]
    /\ err' = TRUE
    /\ UNCHANGED <<durable, files, pc, snap, at, latch, partOps, maintenance,
                   history>>

\* A winning commit since the snapshot carries the stream's own appId.
SameApp(t) == \E i \in snap[t] + 1 .. Len(log[t]) : log[t][i].txn # 0

\* Fault variant: the winning commits are not checked for the stream's appId.
CommitRefusedUnchecked(t) ==
    /\ Committing /\ step[t] = "sent" /\ at[t] <= Len(log[t])
    /\ at' = [at EXCEPT ![t] = Len(log[t]) + 1]
    /\ UNCHANGED <<durable, files, log, pc, snap, step, err, latch, partOps,
                   logPuts, maintenance, faults, history>>

\* The version is taken.  Other winners (maintenance) are followed to the next
\* version; the stream's own ends the commit, except that a roll-forward
\* reloads the table and takes a `txn` equal to the transaction's as done.
CommitRefused(t) ==
    /\ Committing /\ step[t] = "sent" /\ at[t] <= Len(log[t])
    /\ \/ /\ ~SameApp(t)
          /\ at' = [at EXCEPT ![t] = Len(log[t]) + 1]
          /\ UNCHANGED <<step, snap, err, refusal>>
       \/ /\ SameApp(t)
          /\ IF /\ pc = "forward"
                /\ TxnAt(log[t], Len(log[t])) = pending.batch.last
             THEN /\ step' = [step EXCEPT ![t] = "done"]
                  /\ snap' = [snap EXCEPT ![t] = Len(log[t])]
                  /\ UNCHANGED <<err, refusal>>
             ELSE /\ step' = [step EXCEPT ![t] = "failed"]
                  /\ err' = TRUE
                  /\ refusal' = "concurrent_transaction"
                  /\ UNCHANGED snap
          /\ UNCHANGED at
    /\ UNCHANGED <<durable, files, log, pc, latch, partOps, logPuts,
                   maintenance, faults, installed>>

\* Fault variant: the commits are not awaited once all have started.
CommitsStarted ==
    /\ Committing /\ ~err /\ With("todo") = {}
    /\ pc' = "advance"
    /\ UNCHANGED <<durable, files, log, snap, step, at, err, latch, partOps,
                   logPuts, maintenance, faults, history>>

CommitsDone ==
    /\ Committing /\ ~err /\ With("todo") = {} /\ With("sent") = {}
    /\ pc' = "advance"
    /\ UNCHANGED <<durable, files, log, snap, step, at, err, latch, partOps,
                   logPuts, maintenance, faults, history>>

-----------------------------------------------------------------------------
(* Authority, mirror, journal.                                             *)

Advance ==
    /\ pc = "advance"
    /\ auth' = Target(pending)
    /\ installed' = installed \cup {pending.batch}
    /\ pc' = "mirror"
    /\ UNCHANGED <<pending, mirror, owner, files, log, snap, step, at, err,
                   latch, partOps, logPuts, maintenance, faults, refusal>>

\* Fault variant: a mirror at the authority's ordinal is never repaired.
RepairableBehindOnly ==
    mirror = NoCheckpoint \/ mirror.ordinal < auth.ordinal

\* The mirror may be repaired to the authority: absent, behind, or one
\* completion behind at the same ordinal.
Repairable ==
    \/ mirror = NoCheckpoint
    \/ mirror.ordinal < auth.ordinal
    \/ /\ mirror.ordinal = auth.ordinal
       /\ auth.previous = Id(mirror)
       /\ auth.completed > mirror.completed

\* The authority of an empty stream has no mirror.
ReconcileMirror ==
    /\ pc = "mirror"
    /\ IF mirror = (IF auth.ordinal = 0 THEN NoCheckpoint ELSE auth)
       THEN UNCHANGED <<mirror, refusal>> /\
            pc' = IF pending = NoPending THEN "ready" ELSE "clear"
       ELSE IF auth.ordinal # 0 /\ Repairable
            THEN /\ mirror' = auth
                 /\ pc' = IF pending = NoPending THEN "ready" ELSE "clear"
                 /\ UNCHANGED refusal
            ELSE Refuse("mirror") /\ UNCHANGED mirror
    /\ UNCHANGED <<auth, pending, owner, files, log, snap, step, at, err,
                   latch, partOps, logPuts, maintenance, faults, installed>>

\* A rolled back journal is cleared before the mirror is reconciled, a
\* committed one after.
Clear ==
    /\ pc = "clear"
    /\ pc' = IF pending.phase = "Writing" THEN "mirror" ELSE "ready"
    /\ pending' = NoPending
    /\ step' = Off /\ at' = Never
    /\ UNCHANGED <<auth, mirror, owner, files, log, snap, err, latch, partOps,
                   logPuts, maintenance, faults, history>>

\* Fault variants: the completion does not wait for the mirror; it records the
\* last block instead of the exclusive stop.
CompleteUnmirrored(stop) ==
    /\ pc = "ready"
    /\ stop > OriginStart /\ stop > auth.completed
    /\ auth.ordinal # 0 /\ BlockNum[auth.ordinal] >= stop - 1
    /\ auth' = [ordinal |-> auth.ordinal, completed |-> stop,
                previous |-> Id(auth)]
    /\ UNCHANGED <<pending, mirror, owner, files, log, process, partOps,
                   logPuts, maintenance, faults, history>>
CompleteInclusive(stop) ==
    /\ pc = "ready"
    /\ stop > OriginStart /\ stop > auth.completed
    /\ auth.ordinal # 0 /\ BlockNum[auth.ordinal] >= stop - 1
    /\ auth' = [ordinal |-> auth.ordinal, completed |-> stop - 1,
                previous |-> Id(auth)]
    /\ pc' = "mirror"
    /\ UNCHANGED <<pending, mirror, owner, files, log, snap, step, at, err,
                   latch, partOps, logPuts, maintenance, faults, history>>

\* complete_request: the bounded request up to `stop` is recorded.
CompleteRequest(stop) ==
    /\ pc = "ready"
    /\ stop > OriginStart /\ stop > auth.completed
    /\ auth.ordinal # 0 /\ BlockNum[auth.ordinal] >= stop - 1
    /\ auth' = [ordinal |-> auth.ordinal, completed |-> stop,
                previous |-> Id(auth)]
    /\ pc' = "mirror"
    /\ UNCHANGED <<pending, mirror, owner, files, log, snap, step, at, err,
                   latch, partOps, logPuts, maintenance, faults, history>>

-----------------------------------------------------------------------------
(* Errors, exit, crash, operator.                                          *)

\* An error that leaves no request unresolved: a failed read, a refused
\* control write, a mapper or encoder error.  Started work is drained first.
Fail ==
    /\ pc \notin {"down", "failing", "ready"} /\ Fault
    /\ IF pc = "writing" \/ Committing
       THEN ~err /\ err' = TRUE /\ UNCHANGED pc
       ELSE With("sent") = {} /\ pc' = "failing" /\ UNCHANGED err
    /\ UNCHANGED <<durable, files, log, snap, step, at, latch, partOps,
                   logPuts, maintenance, history>>

Drained ==
    /\ pc = "writing" \/ Committing
    /\ err /\ With("sent") = {}
    /\ pc' = "failing"
    /\ UNCHANGED <<durable, files, log, snap, step, at, err, latch, partOps,
                   logPuts, maintenance, faults, history>>

\* DatasetOwnership::finish: the owner is released unless the latch is set.
Finish ==
    /\ pc \in {"ready", "failing"}
    /\ owner' = IF latch THEN "retained" ELSE "free"
    /\ Forget
    /\ UNCHANGED <<auth, pending, mirror, files, log, partOps, logPuts,
                   maintenance, faults, history>>

\* The process dies.  The owner record stays Owned and its requests stay on
\* their way.  A control write or owner release that stays unresolved ends the
\* process with the same durable state as a crash before or after it.
Crash ==
    /\ pc # "down" /\ Fault
    /\ owner' = "retained"
    /\ partOps' = partOps \cup LivePartOps
    /\ logPuts' = logPuts \cup LiveLogPuts
    /\ Forget
    /\ UNCHANGED <<auth, pending, mirror, files, log, maintenance, history>>

\* Fault variant: the owner is released while part requests are on their way.
ReleaseUnsettled ==
    /\ owner = "retained" /\ pc = "down"
    /\ owner' = "free"
    /\ UNCHANGED <<auth, pending, mirror, files, log, process, partOps,
                   logPuts, maintenance, faults, history>>

\* `recovery release`: the operator attests that the process is gone and that
\* the provider completed or revoked its part and control requests.
OperatorRelease ==
    /\ owner = "retained" /\ pc = "down" /\ partOps = {}
    /\ owner' = "free"
    /\ UNCHANGED <<auth, pending, mirror, files, log, process, partOps,
                   logPuts, maintenance, faults, history>>

-----------------------------------------------------------------------------
(* The object store: abandoned requests take effect late, or never.        *)

LateOp(o) ==
    /\ o \in partOps
    /\ partOps' = partOps \ {o}
    /\ \/ o.do = "put" /\ files' = files \cup {o.file}
       \/ o.do = "delete" /\ files' = files \ {o.file}
       \/ UNCHANGED files
    /\ UNCHANGED <<durable, log, process, logPuts, maintenance, faults,
                   history>>

LateCommit(p) ==
    /\ p \in logPuts
    /\ logPuts' = logPuts \ {p}
    /\ \/ /\ p.version = Len(log[p.table]) + 1
          /\ log' = [log EXCEPT ![p.table] = Append(@, p.entry)]
       \/ UNCHANGED log
    /\ UNCHANGED <<durable, files, process, partOps, maintenance, faults,
                   history>>

-----------------------------------------------------------------------------
(* Maintenance, beside the writer and without its owner record.            *)

\* OPTIMIZE rewrites some of the snapshot's files into a new one...
OptimizeWrite(t) ==
    /\ job[t] = NoJob /\ made < MaxCompactions
    /\ \E src \in SUBSET Active(log[t]) :
        LET out == [table |-> t, rows |-> UNION {f.rows : f \in src},
                    by |-> made + 1]
        IN  /\ src # {} /\ src \subseteq files
            /\ files' = files \cup {out}
            /\ job' = [job EXCEPT ![t] =
                        [base |-> Len(log[t]), src |-> src, out |-> {out}]]
    /\ made' = made + 1
    /\ UNCHANGED <<durable, log, process, partOps, logPuts, faults, history>>

\* Fault variant: a lost race is retried with the files of the old snapshot,
\* replacing whatever the table holds by then.
OptimizeReplaceAll(t) ==
    /\ job[t] # NoJob
    /\ log' = [log EXCEPT ![t] =
            Append(@, MaintenanceEntry(job[t].out, Active(log[t])))]
    /\ job' = [job EXCEPT ![t] = NoJob]
    /\ UNCHANGED <<durable, files, process, partOps, logPuts, made, faults,
                   history>>

\* ... and swaps them in one commit, without retries; a lost race leaves the
\* written file as an orphan.
OptimizeCommit(t) ==
    /\ job[t] # NoJob
    /\ \/ /\ Len(log[t]) = job[t].base
          /\ log' = [log EXCEPT ![t] =
                Append(@, MaintenanceEntry(job[t].out, job[t].src))]
       \/ UNCHANGED log
    /\ job' = [job EXCEPT ![t] = NoJob]
    /\ UNCHANGED <<durable, files, process, partOps, logPuts, made, faults,
                   history>>

\* Fault variant: every file no log references counts as expired.
ExpiredUntracked(t) == {f \in files : f.table = t /\ f \notin Active(log[t])}

\* The tombstoned files older than the retention.  A retention of an hour or
\* more outlasts the checks of one start: a file replaced after that start
\* opened the table is not deleted before they are over.
Expired(t) ==
    LET fresh == UNION {log[t][i].rem : i \in snap[t] + 1 .. Len(log[t])}
    IN  IF ~ZeroRetention /\ snap[t] # 0 /\ pc \in {"opening", "forward"}
        THEN Tombstones(log[t]) \ fresh
        ELSE Tombstones(log[t])

\* Lite VACUUM deletes only tombstoned files, and is itself a commit.
LiteVacuum(t) ==
    /\ job[t] = NoJob
    /\ Expired(t) \cap files # {}
    /\ files' = files \ Expired(t)
    /\ log' = [log EXCEPT ![t] = Append(@, MaintenanceEntry({}, {}))]
    /\ UNCHANGED <<durable, process, partOps, logPuts, maintenance, faults,
                   history>>

\* Full VACUUM also deletes untracked files, once they are older than its
\* retention of at least 168 h: here, files of a writer that has stopped.  No
\* request stays on its way for that long.
FullVacuumRun(t) ==
    /\ FullVacuum /\ job[t] = NoJob /\ pc = "down"
    /\ \A p \in logPuts : p.table # t
    /\ LET gone == {f \in files : f.table = t /\ f \notin Active(log[t])}
       IN  gone # {} /\ files' = files \ gone
    /\ UNCHANGED <<durable, log, process, partOps, logPuts, maintenance,
                   faults, history>>

-----------------------------------------------------------------------------
\* What a running process does next when nothing goes wrong.
ProcessStep ==
    \/ Initialize
    \/ \E t \in Tables : OpenTable(t)
    \/ CheckProgress
    \/ \E t \in Tables : SendDelete(t)
    \/ \E t \in Tables : DeleteDone(t)
    \/ RollbackDone
    \/ \E r \in SUBSET Tables : RecordReceipts(r)
    \/ \E t \in Tables : SendPart(t)
    \/ \E t \in Tables : PartPublished(t)
    \/ MarkCommitted
    \/ \E t \in Tables : SendCommit(t)
    \/ \E t \in Tables : CommitLanded(t)
    \/ \E t \in Tables : CommitRefused(t)
    \/ CommitsDone
    \/ Advance
    \/ ReconcileMirror
    \/ Clear
    \/ Drained

FaultStep ==
    \/ \E t \in Tables : DeleteUnresolved(t)
    \/ \E t \in Tables : PartRejected(t)
    \/ \E t \in Tables : PartUnresolved(t)
    \/ \E t \in Tables : CommitUnresolved(t)
    \/ Fail
    \/ Crash

StoreStep ==
    \/ \E o \in partOps : LateOp(o)
    \/ \E p \in logPuts : LateCommit(p)

MaintenanceStep ==
    \/ \E t \in Tables : OptimizeWrite(t)
    \/ \E t \in Tables : OptimizeCommit(t)
    \/ \E t \in Tables : LiteVacuum(t)
    \/ \E t \in Tables : FullVacuumRun(t)

Next ==
    \/ Acquire
    \/ ProcessStep
    \/ \E b \in Batches(auth) : Begin(b)
    \/ \E stop \in Stops : CompleteRequest(stop)
    \/ Finish
    \/ FaultStep
    \/ OperatorRelease
    \/ StoreStep
    \/ MaintenanceStep

Spec == Init /\ [][Next]_vars

\* A started process runs on and ends, a supervisor restarts it, abandoned
\* requests are settled and the operator then releases a retained owner.
Fairness ==
    /\ WF_vars(ProcessStep)
    /\ WF_vars(pc = "failing" /\ Finish)
    /\ WF_vars(Acquire)
    /\ WF_vars(OperatorRelease)
    /\ WF_vars(StoreStep)

FairSpec == Spec /\ Fairness

-----------------------------------------------------------------------------
(* Properties.                                                             *)

Checkpoints ==
    [ordinal : -1..MaxOrdinal, completed : Stops \cup {0},
     previous : (-1..MaxOrdinal) \X (Stops \cup {0, -1})]
BatchSet ==
    [first : 0..MaxOrdinal, last : 0..MaxOrdinal, tabs : SUBSET Tables,
     data : Deliveries \cup {0}]
FileSet ==
    [table : Tables, rows : SUBSET BatchSet, by : 0..MaxCompactions]
EntrySet == [txn : 0..MaxOrdinal, add : SUBSET FileSet, rem : SUBSET FileSet]
PendingSet ==
    [phase : {"None", "Writing", "Committed"}, pred : Checkpoints,
     batch : BatchSet, receipts : SUBSET Tables]
JobSet == [base : Nat, src : SUBSET FileSet, out : SUBSET FileSet]
PartOpSet == [do : {"put", "delete"}, file : FileSet]
LogPutSet == [table : Tables, version : Nat, entry : EntrySet]

\* Every variable has its type.
TypeOK ==
    /\ auth \in Checkpoints /\ mirror \in Checkpoints
    /\ pending \in PendingSet
    /\ files \subseteq FileSet
    /\ log \in [Tables -> Seq(EntrySet)]
    /\ owner \in {"free", "held", "retained"}
    /\ pc \in {"down", "opening", "rollback", "forward", "ready", "writing",
               "commit", "advance", "mirror", "clear", "failing"}
    /\ snap \in [Tables -> Nat] /\ at \in [Tables -> Nat]
    /\ step \in [Tables -> {"off", "todo", "sent", "done", "failed"}]
    /\ err \in BOOLEAN /\ latch \in BOOLEAN
    /\ partOps \subseteq PartOpSet /\ logPuts \subseteq LogPutSet
    /\ job \in [Tables -> JobSet]
    /\ made \in 0..MaxCompactions /\ faults \in 0..MaxFaults
    /\ installed \subseteq BatchSet
    /\ refusal \in {"none", "mirror_exists", "no_log", "log_ahead",
                    "unreceipted_part", "part_missing", "occupied",
                    "concurrent_transaction", "mirror"}

\* The acknowledged batches with rows for t, and the one being committed.
Acknowledged(t) == {b \in installed : t \in b.tabs}
InCommit(t) == {b \in {pending.batch} : Behind /\ t \in b.tabs}

\* Exactly once, per table: each acknowledged batch with rows for the table is
\* in exactly one of its active files, whatever was crashed, resent, delayed
\* or compacted; nothing else is visible but the Committed transaction.
ExactlyOnce ==
    \A t \in Tables :
        /\ Acknowledged(t) \subseteq Rows(log[t])
        /\ Rows(log[t]) \subseteq Acknowledged(t) \cup InCommit(t)
        /\ \A f, g \in Active(log[t]) : f.rows \cap g.rows # {} => f = g

\* The acknowledged batches tile the ordinals up to the authority's: no event
\* is skipped and none is acknowledged twice, over any number of restarts.
OrdinalsTiled ==
    /\ \A o \in 1..MaxOrdinal :
        o <= auth.ordinal <=>
            \E b \in installed : b.first <= o /\ o <= b.last
    /\ \A b, c \in installed :
        b # c => b.last < c.first \/ c.last < b.first

\* `blocks` commits last: a batch visible in `blocks` is visible in every
\* other table it has rows for.
BlocksLast ==
    \A b \in Rows(log[Blocks]) : \A t \in b.tabs : b \in Rows(log[t])

\* Every file a table's log references exists: neither rollback nor VACUUM nor
\* a late DELETE removes a file that readers need.
ReferencedFilesExist == \A t \in Tables : Active(log[t]) \subseteq files

\* No start and no flush ends in an error that a restart cannot clear.
NeverRefused == refusal = "none"

\* With a full VACUUM, only a part deleted while its transaction was pending
\* beyond the retention stops recovery.
OnlyVacuumedPartsRefuse == refusal \in {"none", "part_missing"}

\* The mirror never leads the authority and lacks at most one completion at
\* the same ordinal, so reconciliation can always repair it.
MirrorRepairable ==
    \/ mirror = auth \/ mirror = NoCheckpoint
    \/ mirror.ordinal < auth.ordinal
    \/ mirror.ordinal = auth.ordinal /\ auth.previous = Id(mirror)

\* A Committed journal is never rolled back or replaced: it leaves only once
\* the authority is its target.
CommittedIsFinal ==
    [][pending.phase = "Committed" /\ pending' # pending
        => pending' = NoPending /\ Id(auth) = Id(Target(pending))]_vars

\* The authority moves only to a Committed transaction that every one of its
\* tables already shows, or by a completion without a journal.
AuthorityFollowsTables ==
    [][auth' # auth /\ auth # NoCheckpoint =>
        \/ /\ pending.phase = "Committed" /\ auth' = Target(pending)
           /\ \A t \in pending.batch.tabs : pending.batch \in Rows(log[t])
        \/ pending = NoPending /\ auth'.ordinal = auth.ordinal]_vars

\* The journalled transaction continues its predecessor, and the authority is
\* that predecessor or, once Committed, the transaction's target.
JournalContinues ==
    pending # NoPending =>
        /\ pending.phase \in {"Writing", "Committed"}
        /\ pending.pred.ordinal >= 0
        /\ pending.batch.first = pending.pred.ordinal + 1
        /\ pending.batch.first <= pending.batch.last
        /\ pending.receipts \subseteq pending.batch.tabs
        /\ \/ auth = pending.pred
           \/ pending.phase = "Committed" /\ auth = Target(pending)

\* Where the process is tells what the journal and the mirror can be.
ProcessKnows ==
    /\ pc \notin {"down", "opening", "failing"} => auth # NoCheckpoint
    /\ auth = NoCheckpoint => \A t \in Tables : snap[t] = 0
    /\ pc = "ready" =>
        /\ pending = NoPending
        /\ auth.ordinal # 0 => mirror = auth
    /\ pc \in {"writing", "rollback"} =>
        pending.phase = "Writing" /\ auth = pending.pred
    /\ pc \in {"commit", "forward", "advance"} =>
        pending.phase = "Committed" /\ auth = pending.pred
    /\ pc = "mirror" /\ pending # NoPending =>
        pending.phase = "Committed" /\ auth = Target(pending)
    /\ pc = "clear" =>
        \/ pending.phase = "Writing"
        \/ /\ pending.phase = "Committed" /\ auth = Target(pending)
           /\ auth.ordinal # 0 => mirror = auth

\* The mirror is absent until the first acknowledgement and never ahead.
MirrorFollows ==
    /\ auth.ordinal <= 0 => mirror = NoCheckpoint
    /\ auth # NoCheckpoint => auth.ordinal >= 0
    /\ auth = NoCheckpoint => pending = NoPending /\ installed = {}
    /\ \/ mirror = auth \/ Repairable

\* Acknowledged batches lie within the authority.
InstalledBounded ==
    \A b \in installed :
        1 <= b.first /\ b.first <= b.last /\ b.last <= auth.ordinal

\* The inductive invariant of journal, authority and mirror.
JournalInv ==
    /\ JournalContinues
    /\ ProcessKnows
    /\ MirrorFollows
    /\ InstalledBounded
    /\ OrdinalsTiled

\* The Committed transaction is in t's log and not yet acknowledged.
Shown(t) ==
    Behind /\ \E i \in Versions(log[t]) : log[t][i].txn = pending.batch.last

\* A log carries each `txn` once, in rising order, and none beyond the
\* authority but that of the Committed transaction.
TxnsOrdered ==
    \A t \in Tables : \A i \in Versions(log[t]) :
        /\ \/ log[t][i].txn <= auth.ordinal \/ log[t][i].txn = 0
           \/ /\ Behind /\ t \in pending.batch.tabs
              /\ log[t][i].txn = pending.batch.last
        /\ \A j \in Versions(log[t]) :
            i < j /\ log[t][i].txn # 0 /\ log[t][j].txn # 0
                => log[t][i].txn < log[t][j].txn

\* What a table shows: the acknowledged batches and the one in commit, each in
\* one file.
RowsKnown ==
    \A t \in Tables :
        /\ Rows(log[t]) = Acknowledged(t) \cup {b \in InCommit(t) : Shown(t)}
        /\ \A f, g \in Active(log[t]) : f.rows \cap g.rows # {} => f = g

\* A request for the next version of t's log is a first one.
MayLand(t) ==
    /\ Behind /\ t \in pending.batch.tabs /\ ~Shown(t)
    /\ t = Blocks => \A u \in pending.batch.tabs \ {t} : Shown(u)

\* A request on its way names a version that is taken, or it may land.
PutsCurrent ==
    \A p \in logPuts :
        /\ p.version <= Len(log[p.table]) + 1
        /\ p.version = Len(log[p.table]) + 1 =>
            MayLand(p.table) /\ p.entry = AppendEntry(pending.batch, p.table)

\* What a table's progress in the commit phase tells about its log.
StepCurrent(t) ==
    /\ step[t] \in {"todo", "sent"} =>
        /\ t \in pending.batch.tabs
        /\ \A i \in 1..snap[t] : log[t][i].txn # pending.batch.last
    /\ step[t] = "sent" =>
        /\ at[t] <= Len(log[t]) + 1
        /\ at[t] = Len(log[t]) + 1 => MayLand(t)
        /\ t = Blocks => \A u \in pending.batch.tabs \ {t} : Shown(u)
    /\ step[t] \in {"off", "done"} /\ t \in pending.batch.tabs => Shown(t)
    /\ step[t] = "failed" => err

\* No table was opened at a version that does not exist, and the authority and
\* `blocks` wait for the tables.
StepsCurrent ==
    /\ \A t \in Tables : snap[t] <= Len(log[t])
    /\ Committing => \A t \in Tables : StepCurrent(t)
    /\ pc = "advance" => \A t \in pending.batch.tabs : Shown(t)
    /\ Shown(Blocks) => \A t \in pending.batch.tabs : Shown(t)

\* A running OPTIMIZE replaces files by one with the same rows; its snapshot is
\* the table unless another commit has taken the next version.
JobsCurrent ==
    \A t \in Tables : job[t] # NoJob =>
        /\ job[t].base <= Len(log[t])
        /\ job[t].base = Len(log[t]) => job[t].src \subseteq Active(log[t])
        /\ \E out \in job[t].out :
            /\ job[t].out = {out}
            /\ out.rows = UNION {f.rows : f \in job[t].src}

\* The inductive invariant of the logs: a log request that can still land,
\* sent or on its way, is the first of its transaction in that table's log,
\* since `commit_table` sends one only after reading a log without its
\* `txn`; and an OPTIMIZE that can still commit replaces active files only.
LogInv ==
    /\ TxnsOrdered
    /\ RowsKnown
    /\ PutsCurrent
    /\ StepsCurrent
    /\ JobsCurrent

\* Every journalled transaction is resolved once faults stop.
JournalResolved == pending # NoPending ~> pending = NoPending

\* A started process reaches streaming once faults stop: nothing that a fault
\* left behind stops a start for good.
StartsRecover == pc = "opening" ~> pc = "ready"

\* The promise of AtomicIngest, read off the durable state: OPTIMIZE, VACUUM,
\* rollback, crashes and late requests do not show.
Atomic == INSTANCE AtomicIngest WITH
    None    <- NoBatch,
    Batch   <- BatchSet,
    ordinal <- IF auth = NoCheckpoint THEN 0 ELSE auth.ordinal,
    current <- IF Behind THEN pending.batch ELSE NoBatch,
    visible <- [t \in Tables |-> Rows(log[t])]

\* Every behaviour of the detailed protocol is one of AtomicIngest.
ImplementsAtomic == Atomic!Spec

\* VACUUM_RETENTION_HOURS=0: "never reads a part a log already holds, so a
\* compacted and vacuumed part cannot stop a restart".
VacuumedPartNeverStopsRestart == refusal # "part_missing"

\* "A clear latch therefore means no request this command sent can take effect
\* later": whenever the owner record is free, nothing is on its way.
ReleasedMeansSettled == owner = "free" => partOps = {} /\ logPuts = {}
=============================================================================
