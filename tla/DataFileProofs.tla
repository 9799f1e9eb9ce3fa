-------------------------- MODULE DataFileProofs ---------------------------
(***************************************************************************)
(* The data files beside the logs: no step removes a file that a log       *)
(* references, and no start or flush ends in an error that a restart cannot*)
(* clear, except where VACUUM has deleted a part that recovery still needs.*)
(***************************************************************************)
EXTENDS LogProofs

USE TablesAssumption, NumbersAssumption, Zenon

-----------------------------------------------------------------------------
(* The inductive invariant.                                                *)

\* The part of the journalled transaction in table t.
Own(t) == Part(pending.batch, t)

\* A part request without an outcome holds the owner record: through the latch
\* while the process lives, and retained afterwards.  It is one for a receipted
\* part of the Writing journal.
Settled ==
    /\ pc = "down" <=> owner # "held"
    /\ latch => pc = "failing" \/ (pc = "writing" /\ err)
    /\ partOps # {} => latch \/ owner = "retained"
    /\ \A o \in partOps :
        /\ pending.phase = "Writing"
        /\ \E t \in pending.receipts : o.file = Own(t)

\* Which tables have a log, and which of them the process has opened.
Opened ==
    /\ pc = "down" => \A t \in Tables : snap[t] = 0
    /\ pc \notin {"down", "opening", "failing"} => \A t \in Tables : snap[t] # 0
    /\ pending # NoPending \/ auth.ordinal > 0 =>
        \A t \in Tables : log[t] # <<>>

\* A writer's part in the store is of an acknowledged batch or of the
\* journalled one, which has its receipt.
FilesKnown ==
    /\ \A f \in files : f.by = 0 =>
        \/ \E b \in installed : f.rows = {b}
        \/ /\ pending # NoPending
           /\ \E t \in pending.batch.tabs :
                /\ f = Own(t)
                /\ pending.phase = "Writing" => t \in pending.receipts
    /\ pending.phase = "Committed" /\ ~Behind => pending.batch \in installed

\* What the process knows of the parts it publishes or deletes.
PartsInHand ==
    /\ pc = "writing" => \A t \in Tables :
        /\ step[t] \in {"sent", "done"} => t \in pending.receipts
        /\ step[t] = "done" /\ ~err => Own(t) \in files
    /\ pc = "rollback" => \A t \in Tables :
        /\ step[t] \in {"todo", "sent"} => t \in pending.receipts
        /\ Own(t) \in files => step[t] \in {"todo", "sent"}
    /\ pc = "clear" /\ pending.phase = "Writing" =>
        \A t \in Tables : Own(t) \notin files

\* Entry e of t's log names files of its own table; a writer's part comes with
\* the `txn` of its batch, one of those known.
NamesOwn(e, t, known) ==
    \A f \in e.add :
        /\ f.table = t
        /\ f.by = 0 => \E b \in known : f.rows = {b} /\ e.txn = b.last

\* What version i of log l removes was added before.
RemovesAdded(l, i) ==
    \A f \in l[i].rem : \E j \in Versions(l) : j < i /\ f \in l[j].add

Logged ==
    \A t \in Tables : \A i \in Versions(log[t]) :
        /\ NamesOwn(log[t][i], t, installed \cup InCommit(t))
        /\ RemovesAdded(log[t], i)

\* What OPTIMIZE has written is in the store until it commits.
JobsWritten ==
    \A t \in Tables : \A f \in job[t].out :
        f.table = t /\ f.by # 0 /\ f \in files

\* A log request for t's part may still land, or no VACUUM deletes the part.
Wanted(t) ==
    \/ ~FullVacuum
    \/ Committing /\ step[t] \in {"todo", "sent"}
    \/ \E p \in logPuts : p.table = t /\ p.version = Len(log[t]) + 1

\* The part of a table that does not show the Committed transaction stays as
\* long as it is wanted.
PartsKept ==
    \A t \in pending.batch.tabs :
        Behind /\ ~Shown(t) /\ Wanted(t) => Own(t) \in files

\* The process opened t before the Committed transaction showed there.
OpenedWithout(t) ==
    /\ Behind /\ snap[t] # 0
    /\ \A i \in 1..snap[t] : log[t][i].txn # pending.batch.last

\* A start that opened the table before the transaction showed finds its part.
PartsKeptForStart ==
    ~FullVacuum /\ ~ZeroRetention /\ pc = "opening" =>
        \A t \in pending.batch.tabs : OpenedWithout(t) => Own(t) \in files

\* The process is where it may meet a commit of its transaction in t's log that
\* is newer than the version it has seen.
Tolerant(t) ==
    \/ pc = "opening"
    \/ pc = "forward" /\ step[t] \in {"todo", "sent", "failed"}
    \/ pc = "commit" /\ step[t] = "failed"

\* Only a late commit of the transaction in recovery, or one whose outcome
\* the process does not know, is newer than the version the process has seen.
SnapsCurrent ==
    /\ \A t \in Tables : \A i \in snap[t] + 1 .. Len(log[t]) :
        snap[t] # 0 /\ log[t][i].txn # 0 /\ pc # "failing" =>
            Behind /\ log[t][i].txn = pending.batch.last /\ Tolerant(t)
    /\ pc = "commit" => \A p \in logPuts :
        p.version = Len(log[p.table]) + 1 => step[p.table] = "failed"

\* Only a part that VACUUM deleted stops a start.
Refusals ==
    /\ OnlyVacuumedPartsRefuse
    /\ ~FullVacuum /\ ~ZeroRetention => NeverRefused

FileInv ==
    /\ Settled /\ Opened /\ FilesKnown /\ PartsInHand /\ Logged /\ JobsWritten
    /\ ReferencedFilesExist /\ PartsKept /\ PartsKeptForStart /\ SnapsCurrent
    /\ Refusals

-----------------------------------------------------------------------------
(* Which steps change what.                                                *)

ChangeFiles ==
    \/ \E t \in Tables :
        \/ DeleteDone(t) \/ PartPublished(t)
        \/ OptimizeWrite(t) \/ LiteVacuum(t) \/ FullVacuumRun(t)
    \/ \E o \in partOps : LateOp(o)
ChangeLog ==
    \/ \E t \in Tables :
        \/ OpenTable(t) \/ CommitLanded(t) \/ CommitUnresolved(t)
        \/ OptimizeCommit(t) \/ LiteVacuum(t)
    \/ \E p \in logPuts : LateCommit(p)
ChangePending ==
    \/ \E b \in Batches(auth) : Begin(b)
    \/ \E r \in SUBSET Tables : RecordReceipts(r)
    \/ MarkCommitted \/ Clear
ChangeAuth ==
    Initialize \/ Advance \/ \E stop \in Stops : CompleteRequest(stop)
ChangeRefusal ==
    \/ Initialize \/ CheckProgress \/ MarkCommitted \/ ReconcileMirror
    \/ \E t \in Tables : OpenTable(t) \/ CommitRefused(t)
    \/ \E b \in Batches(auth) : Begin(b)
ChangeStep ==
    \/ CheckProgress \/ MarkCommitted \/ Clear
    \/ \E b \in Batches(auth) : Begin(b)
    \/ \E t \in Tables :
        \/ SendDelete(t) \/ DeleteDone(t) \/ DeleteUnresolved(t)
        \/ SendPart(t) \/ PartPublished(t) \/ PartRejected(t)
        \/ PartUnresolved(t) \/ SendCommit(t) \/ CommitLanded(t)
        \/ CommitUnresolved(t) \/ CommitRefused(t)

\* Every step but the named ones leaves the variable alone.
DataChanges ==
    /\ files' = files \/ ChangeFiles
    /\ log' = log \/ ChangeLog
    /\ pending' = pending \/ ChangePending
    /\ auth' = auth \/ ChangeAuth
    /\ installed' = installed \/ Advance
    /\ job' = job \/ \E t \in Tables : OptimizeWrite(t) \/ OptimizeCommit(t)
    /\ \/ partOps' = partOps \/ Crash
       \/ \E t \in Tables : DeleteUnresolved(t) \/ PartUnresolved(t)
       \/ \E o \in partOps : LateOp(o)
    /\ \/ logPuts' = logPuts \/ Crash
       \/ \E t \in Tables : CommitUnresolved(t)
       \/ \E p \in logPuts : LateCommit(p)
ProcessChanges ==
    /\ refusal' = refusal \/ ChangeRefusal
    /\ step' = step \/ ChangeStep \/ Finish \/ Crash
    /\ \/ snap' = snap \/ Finish \/ Crash
       \/ \E t \in Tables : OpenTable(t) \/ CommitLanded(t) \/ CommitRefused(t)
    /\ \/ latch' = latch \/ Finish \/ Crash
       \/ \E t \in Tables :
            DeleteUnresolved(t) \/ PartPublished(t) \/ PartUnresolved(t)
    /\ owner' = owner \/ Acquire \/ Finish \/ Crash \/ OperatorRelease
    /\ err' = err \/ err' = TRUE \/ Finish \/ Crash
PcChanges ==
    /\ pc = "down" => pc' = "down" \/ Acquire
    /\ pc = "failing" => pc' = "failing" \/ Finish \/ Crash
    /\ pc = "writing" /\ err => pc' \in {"writing", "failing"} \/ Crash
    /\ pc' = "down" => pc = "down" \/ Finish \/ Crash
    /\ pc' = "opening" => pc = "opening" \/ Acquire
    /\ pc' = "writing" =>
        pc = "writing" \/ \E b \in Batches(auth) : Begin(b)
    /\ pc' = "rollback" => pc = "rollback" \/ CheckProgress
    /\ pc' = "clear" => pc = "clear" \/ RollbackDone \/ ReconcileMirror
    /\ pc' = "commit" => pc = "commit" \/ MarkCommitted
    /\ pc' = "forward" => pc = "forward" \/ CheckProgress
    /\ pc' \in {"advance", "mirror", "ready"} =>
        pc \notin {"down", "opening", "failing"} \/ CheckProgress
    /\ pc \in {"commit", "forward"} =>
        pc' \in {pc, "failing", "down"} \/ CommitsDone

\* Each step is one of the actions that may change what it changes.
LEMMA Changes ==
    ASSUME [Next]_vars
    PROVE  DataChanges /\ ProcessChanges /\ PcChanges
<1> DEFINE Goal == DataChanges /\ ProcessChanges /\ PcChanges
<1> USE DEF durable, process, maintenance, history
<1>1. CASE Acquire
  <2>1. /\ UNCHANGED <<auth, pending, files, log, snap, step, err, latch,
          partOps, logPuts, job, installed, refusal>>
        /\ pc = "down" /\ pc' = "opening"
    BY <1>1 DEF Acquire
  <2> QED BY <1>1, <2>1
      DEF DataChanges, ProcessChanges, PcChanges
<1>2. CASE Initialize
  <2>1. /\ UNCHANGED <<pending, owner, files, log, snap, step, err, latch,
          partOps, logPuts, job, installed>>
        /\ pc = "opening" /\ pc' \in {"opening", "failing"}
    BY <1>2 DEF Initialize, Refuse
  <2> QED BY <1>2, <2>1
      DEF DataChanges, ProcessChanges, PcChanges, ChangeAuth, ChangeRefusal
<1>3. ASSUME NEW t \in Tables, OpenTable(t) PROVE Goal
  <2>1. /\ UNCHANGED <<auth, pending, owner, files, step, err, latch, partOps,
          logPuts, job, installed>>
        /\ pc = "opening" /\ pc' \in {"opening", "failing"}
    BY <1>3 DEF OpenTable, Refuse
  <2> QED BY <1>3, <2>1
      DEF DataChanges, ProcessChanges, PcChanges, ChangeLog, ChangeRefusal
<1>4. CASE CheckProgress
  <2>1. /\ UNCHANGED <<auth, pending, owner, files, log, snap, err, latch,
          partOps, logPuts, job, installed>>
        /\ pc = "opening"
        /\ pc' \in {"failing", "mirror", "rollback", "forward", "advance"}
    BY <1>4 DEF CheckProgress, Refuse, RecoverWriting, RecoverCommitted
  <2> QED BY <1>4, <2>1
      DEF DataChanges, ProcessChanges, PcChanges, ChangeStep, ChangeRefusal
<1>5. ASSUME NEW t \in Tables, SendDelete(t) PROVE Goal
  <2>1. /\ UNCHANGED <<auth, pending, owner, files, log, pc, snap, err, latch,
          partOps, logPuts, job, installed, refusal>>
    BY <1>5 DEF SendDelete
  <2> QED BY <1>5, <2>1
      DEF DataChanges, ProcessChanges, PcChanges, ChangeStep
<1>6. ASSUME NEW t \in Tables, DeleteDone(t) PROVE Goal
  <2>1. /\ UNCHANGED <<auth, pending, owner, log, pc, snap, err, latch,
          partOps, logPuts, job, installed, refusal>>
    BY <1>6 DEF DeleteDone
  <2> QED BY <1>6, <2>1
      DEF DataChanges, ProcessChanges, PcChanges, ChangeFiles, ChangeStep
<1>7. ASSUME NEW t \in Tables, DeleteUnresolved(t) PROVE Goal
  <2>1. /\ UNCHANGED <<auth, pending, owner, files, log, snap, err, logPuts,
          job, installed, refusal>>
        /\ pc = "rollback" /\ pc' = "failing"
    BY <1>7 DEF DeleteUnresolved, Fault
  <2> QED BY <1>7, <2>1
      DEF DataChanges, ProcessChanges, PcChanges, ChangeStep
<1>8. CASE RollbackDone
  <2>1. /\ UNCHANGED <<auth, pending, owner, files, log, snap, step, err,
          latch, partOps, logPuts, job, installed, refusal>>
        /\ pc = "rollback" /\ pc' = "clear"
    BY <1>8 DEF RollbackDone
  <2> QED BY <1>8, <2>1
      DEF DataChanges, ProcessChanges, PcChanges
<1>9. ASSUME NEW r \in SUBSET Tables, RecordReceipts(r) PROVE Goal
  <2>1. /\ UNCHANGED <<auth, owner, files, log, pc, snap, step, err, latch,
          partOps, logPuts, job, installed, refusal>>
    BY <1>9 DEF RecordReceipts
  <2> QED BY <1>9, <2>1
      DEF DataChanges, ProcessChanges, PcChanges, ChangePending
<1>10. ASSUME NEW t \in Tables, SendPart(t) PROVE Goal
  <2>1. /\ UNCHANGED <<auth, pending, owner, files, log, pc, snap, err, latch,
          partOps, logPuts, job, installed, refusal>>
    BY <1>10 DEF SendPart
  <2> QED BY <1>10, <2>1
      DEF DataChanges, ProcessChanges, PcChanges, ChangeStep
<1>11. ASSUME NEW t \in Tables, PartPublished(t) PROVE Goal
  <2>1. /\ UNCHANGED <<auth, pending, owner, log, pc, snap, partOps, logPuts,
          job, installed, refusal>>
        /\ err' = err \/ err' = TRUE
    BY <1>11 DEF PartPublished
  <2> QED BY <1>11, <2>1
      DEF DataChanges, ProcessChanges, PcChanges, ChangeFiles, ChangeStep
<1>12. ASSUME NEW t \in Tables, PartRejected(t) PROVE Goal
  <2>1. /\ UNCHANGED <<auth, pending, owner, files, log, pc, snap, latch,
          partOps, logPuts, job, installed, refusal>>
        /\ err' = err \/ err' = TRUE
    BY <1>12 DEF PartRejected, Fault
  <2> QED BY <1>12, <2>1
      DEF DataChanges, ProcessChanges, PcChanges, ChangeStep
<1>13. ASSUME NEW t \in Tables, PartUnresolved(t) PROVE Goal
  <2>1. /\ UNCHANGED <<auth, pending, owner, files, log, pc, snap, logPuts,
          job, installed, refusal>>
        /\ err' = err \/ err' = TRUE
    BY <1>13 DEF PartUnresolved, Fault
  <2> QED BY <1>13, <2>1
      DEF DataChanges, ProcessChanges, PcChanges, ChangeStep
<1>14. CASE MarkCommitted
  <2>1. /\ UNCHANGED <<auth, owner, files, log, snap, err, latch, partOps,
          logPuts, job, installed>>
        /\ pc = "writing" /\ ~err /\ pc' \in {"commit", "failing"}
    BY <1>14 DEF MarkCommitted, Refuse
  <2> QED BY <1>14, <2>1
      DEF DataChanges, ProcessChanges, PcChanges, ChangePending, ChangeStep,
          ChangeRefusal
<1>15. ASSUME NEW t \in Tables, SendCommit(t) PROVE Goal
  <2>1. /\ UNCHANGED <<auth, pending, owner, files, log, pc, snap, err, latch,
          partOps, logPuts, job, installed, refusal>>
    BY <1>15 DEF SendCommit, Committing
  <2> QED BY <1>15, <2>1
      DEF DataChanges, ProcessChanges, PcChanges, ChangeStep
<1>16. ASSUME NEW t \in Tables, CommitLanded(t) PROVE Goal
  <2>1. /\ UNCHANGED <<auth, pending, owner, files, pc, err, latch, partOps,
          logPuts, job, installed, refusal>>
    BY <1>16 DEF CommitLanded, Committing
  <2> QED BY <1>16, <2>1
      DEF DataChanges, ProcessChanges, PcChanges, ChangeLog, ChangeStep
<1>17. ASSUME NEW t \in Tables, CommitUnresolved(t) PROVE Goal
  <2>1. /\ UNCHANGED <<auth, pending, owner, files, pc, snap, latch, partOps,
          job, installed, refusal>>
        /\ err' = err \/ err' = TRUE
    BY <1>17 DEF CommitUnresolved, Fault, Committing
  <2> QED BY <1>17, <2>1
      DEF DataChanges, ProcessChanges, PcChanges, ChangeLog, ChangeStep
<1>18. ASSUME NEW t \in Tables, CommitRefused(t) PROVE Goal
  <2>1. /\ UNCHANGED <<auth, pending, owner, files, log, pc, latch, partOps,
          logPuts, job, installed>>
        /\ err' = err \/ err' = TRUE
    BY <1>18 DEF CommitRefused, Committing
  <2> QED BY <1>18, <2>1
      DEF DataChanges, ProcessChanges, PcChanges, ChangeStep, ChangeRefusal
<1>19. CASE CommitsDone
  <2>1. /\ UNCHANGED <<auth, pending, owner, files, log, snap, step, err,
          latch, partOps, logPuts, job, installed, refusal>>
        /\ pc \in {"commit", "forward"} /\ pc' = "advance"
    BY <1>19 DEF CommitsDone, Committing
  <2> QED BY <1>19, <2>1
      DEF DataChanges, ProcessChanges, PcChanges
<1>20. CASE Advance
  <2>1. /\ UNCHANGED <<pending, owner, files, log, snap, step, err, latch,
          partOps, logPuts, job, refusal>>
        /\ pc = "advance" /\ pc' = "mirror"
    BY <1>20 DEF Advance
  <2> QED BY <1>20, <2>1
      DEF DataChanges, ProcessChanges, PcChanges, ChangeAuth
<1>21. CASE ReconcileMirror
  <2>1. /\ UNCHANGED <<auth, pending, owner, files, log, snap, step, err,
          latch, partOps, logPuts, job, installed>>
        /\ pc = "mirror" /\ pc' \in {"ready", "clear", "failing"}
    BY <1>21 DEF ReconcileMirror, Refuse
  <2> QED BY <1>21, <2>1
      DEF DataChanges, ProcessChanges, PcChanges, ChangeRefusal
<1>22. CASE Clear
  <2>1. /\ UNCHANGED <<auth, owner, files, log, snap, err, latch, partOps,
          logPuts, job, installed, refusal>>
        /\ pc = "clear" /\ pc' \in {"mirror", "ready"}
    BY <1>22 DEF Clear
  <2> QED BY <1>22, <2>1
      DEF DataChanges, ProcessChanges, PcChanges, ChangePending, ChangeStep
<1>23. ASSUME NEW b \in Batches(auth), Begin(b) PROVE Goal
  <2>1. /\ UNCHANGED <<auth, owner, files, log, snap, err, latch, partOps,
          logPuts, job, installed>>
        /\ pc = "ready" /\ pc' \in {"writing", "failing"}
    BY <1>23 DEF Begin, Refuse
  <2> QED BY <1>23, <2>1
      DEF DataChanges, ProcessChanges, PcChanges, ChangePending, ChangeStep,
          ChangeRefusal
<1>24. ASSUME NEW stop \in Stops, CompleteRequest(stop) PROVE Goal
  <2>1. /\ UNCHANGED <<pending, owner, files, log, snap, step, err, latch,
          partOps, logPuts, job, installed, refusal>>
        /\ pc = "ready" /\ pc' = "mirror"
    BY <1>24 DEF CompleteRequest
  <2> QED BY <1>24, <2>1
      DEF DataChanges, ProcessChanges, PcChanges, ChangeAuth
<1>25. CASE Fail
  <2>1. /\ UNCHANGED <<auth, pending, owner, files, log, snap, step, latch,
          partOps, logPuts, job, installed, refusal>>
        /\ pc \notin {"down", "failing"} /\ pc' \in {pc, "failing"}
        /\ err' = err \/ err' = TRUE
    BY <1>25 DEF Fail, Committing, Fault
  <2> QED BY <1>25, <2>1
      DEF DataChanges, ProcessChanges, PcChanges
<1>26. CASE Drained
  <2>1. /\ UNCHANGED <<auth, pending, owner, files, log, snap, step, err,
          latch, partOps, logPuts, job, installed, refusal>>
        /\ pc \in {"writing", "commit", "forward"} /\ pc' = "failing"
    BY <1>26 DEF Drained, Committing
  <2> QED BY <1>26, <2>1
      DEF DataChanges, ProcessChanges, PcChanges
<1>27. CASE Finish
  <2>1. /\ UNCHANGED <<auth, pending, files, log, partOps, logPuts, job,
          installed, refusal>>
        /\ pc \in {"ready", "failing"} /\ pc' = "down"
    BY <1>27 DEF Finish, Forget
  <2> QED BY <1>27, <2>1
      DEF DataChanges, ProcessChanges, PcChanges
<1>28. CASE Crash
  <2>1. /\ UNCHANGED <<auth, pending, files, log, job, installed, refusal>>
        /\ pc # "down" /\ pc' = "down"
    BY <1>28 DEF Crash, Forget, Fault
  <2> QED BY <1>28, <2>1
      DEF DataChanges, ProcessChanges, PcChanges
<1>29. CASE OperatorRelease
  <2>1. /\ UNCHANGED <<auth, pending, files, log, pc, snap, step, err, latch,
          partOps, logPuts, job, installed, refusal>>
    BY <1>29 DEF OperatorRelease
  <2> QED BY <1>29, <2>1
      DEF DataChanges, ProcessChanges, PcChanges
<1>30. ASSUME NEW o \in partOps, LateOp(o) PROVE Goal
  <2>1. /\ UNCHANGED <<auth, pending, owner, log, pc, snap, step, err, latch,
          logPuts, job, installed, refusal>>
    BY <1>30 DEF LateOp
  <2> QED BY <1>30, <2>1
      DEF DataChanges, ProcessChanges, PcChanges, ChangeFiles
<1>31. ASSUME NEW p \in logPuts, LateCommit(p) PROVE Goal
  <2>1. /\ UNCHANGED <<auth, pending, owner, files, pc, snap, step, err, latch,
          partOps, job, installed, refusal>>
    BY <1>31 DEF LateCommit
  <2> QED BY <1>31, <2>1
      DEF DataChanges, ProcessChanges, PcChanges, ChangeLog
<1>32. ASSUME NEW t \in Tables, OptimizeWrite(t) PROVE Goal
  <2>1. /\ UNCHANGED <<auth, pending, owner, log, pc, snap, step, err, latch,
          partOps, logPuts, installed, refusal>>
    BY <1>32 DEF OptimizeWrite
  <2> QED BY <1>32, <2>1
      DEF DataChanges, ProcessChanges, PcChanges, ChangeFiles
<1>33. ASSUME NEW t \in Tables, OptimizeCommit(t) PROVE Goal
  <2>1. /\ UNCHANGED <<auth, pending, owner, files, pc, snap, step, err, latch,
          partOps, logPuts, installed, refusal>>
    BY <1>33 DEF OptimizeCommit
  <2> QED BY <1>33, <2>1
      DEF DataChanges, ProcessChanges, PcChanges, ChangeLog
<1>34. ASSUME NEW t \in Tables, LiteVacuum(t) PROVE Goal
  <2>1. /\ UNCHANGED <<auth, pending, owner, pc, snap, step, err, latch,
          partOps, logPuts, job, installed, refusal>>
    BY <1>34 DEF LiteVacuum
  <2> QED BY <1>34, <2>1
      DEF DataChanges, ProcessChanges, PcChanges, ChangeFiles, ChangeLog
<1>35. ASSUME NEW t \in Tables, FullVacuumRun(t) PROVE Goal
  <2>1. /\ UNCHANGED <<auth, pending, owner, log, pc, snap, step, err, latch,
          partOps, logPuts, job, installed, refusal>>
    BY <1>35 DEF FullVacuumRun
  <2> QED BY <1>35, <2>1
      DEF DataChanges, ProcessChanges, PcChanges, ChangeFiles
<1>36. CASE UNCHANGED vars
  BY <1>36 DEF vars, DataChanges, ProcessChanges, PcChanges
<1> HIDE DEF Goal
<1> QED
  BY <1>1, <1>2, <1>3, <1>4, <1>5, <1>6, <1>7, <1>8, <1>9, <1>10, <1>11,
     <1>12, <1>13, <1>14, <1>15, <1>16, <1>17, <1>18, <1>19, <1>20, <1>21,
     <1>22, <1>23, <1>24, <1>25, <1>26, <1>27, <1>28, <1>29, <1>30, <1>31,
     <1>32, <1>33, <1>34, <1>35, <1>36
  DEF Next, ProcessStep, FaultStep, StoreStep, MaintenanceStep, Goal

-----------------------------------------------------------------------------
(* Facts about states and steps.                                           *)

\* A Writing journal is of the next batch, which is not acknowledged.
LEMMA WritingFacts ==
    ASSUME TypeOK, JournalInv, pending.phase = "Writing"
    PROVE  /\ pending # NoPending /\ ~Behind /\ auth = pending.pred
           /\ pending.batch \in BatchSet /\ pending.batch.tabs \subseteq Tables
           /\ pending.receipts \subseteq pending.batch.tabs
           /\ pending.batch \notin installed
<1>1. pending # NoPending /\ ~Behind
  BY SMT DEF NoPending, Behind
<1>2. /\ pending.batch \in BatchSet /\ pending.batch.tabs \subseteq Tables
      /\ pending.batch.first \in Nat /\ pending.batch.last \in Nat
      /\ auth.ordinal \in Int
  BY SMTT(30) DEF TypeOK, PendingSet, BatchSet, Checkpoints
<1>3. /\ auth = pending.pred /\ pending.receipts \subseteq pending.batch.tabs
      /\ pending.batch.first = pending.pred.ordinal + 1
      /\ pending.batch.first <= pending.batch.last
  BY <1>1, SMT DEF JournalInv, JournalContinues
<1>4. pending.batch \notin installed
  BY <1>2, <1>3, SMT DEF JournalInv, InstalledBounded
<1> QED BY <1>1, <1>2, <1>3, <1>4

\* While the process runs and no publication has failed, it waits for every
\* part request.
LEMMA NothingAbandoned ==
    ASSUME Settled, pc \notin {"down", "failing"}, ~(pc = "writing" /\ err)
    PROVE  partOps = {} /\ ~latch
BY DEF Settled

\* The process is beyond opening exactly in these places.
LEMMA BehindPlaces ==
    ASSUME TypeOK, JournalInv, Behind
    PROVE  pc \in {"down", "opening", "failing", "commit", "forward", "advance"}
<1>1. pending # NoPending /\ pending.phase = "Committed" /\ auth # Target(pending)
  BY BehindFacts, TargetDiffers DEF JournalInv
<1> QED BY <1>1, SMT DEF JournalInv, ProcessKnows, TypeOK

\* A transaction becomes Committed by MarkCommitted, and stays behind the
\* authority until Advance.
LEMMA BehindMoves ==
    ASSUME TypeOK, JournalInv, [Next]_vars
    PROVE  /\ Behind' => MarkCommitted \/ (Behind /\ UNCHANGED <<auth, pending>>)
           /\ Behind => Advance \/ UNCHANGED <<auth, pending>>
<1> USE DEF durable, process, maintenance, history
<1>1. DataChanges
  BY Changes
<1>2. ASSUME NEW b \in Batches(auth), Begin(b)
      PROVE  ~Behind /\ (UNCHANGED <<auth, pending>> \/ ~Behind')
  BY <1>2, SMT DEF Begin, JournalInv, ProcessKnows, Behind, NoPending
<1>3. ASSUME NEW r \in SUBSET Tables, RecordReceipts(r) PROVE ~Behind /\ ~Behind'
  BY <1>3 DEF RecordReceipts, JournalInv, ProcessKnows, Behind, TypeOK, PendingSet
<1>4. CASE MarkCommitted
  BY <1>4 DEF MarkCommitted, JournalInv, ProcessKnows, Behind
<1>5. CASE Clear
  <2>1. ~Behind'
    BY <1>5 DEF Clear, Behind, NoPending
  <2>2. pc = "clear"
    BY <1>5 DEF Clear
  <2> QED BY <2>1, <2>2, BehindPlaces
<1>6. CASE Initialize
  <2>1. ~Behind /\ pending' = pending /\ pending = NoPending
    BY <1>6, SMT DEF Initialize, JournalInv, MirrorFollows, Behind, NoPending
  <2> QED BY <2>1 DEF Behind, NoPending
<1>7. CASE Advance
  <2>1. auth' = Target(pending) /\ pending' = pending /\ Behind
    BY <1>7, CommittingBehind DEF Advance
  <2>2. Id(Target(pending)) # Id(pending.pred)
    BY <2>1, BehindFacts, TargetDiffers DEF JournalInv
  <2> QED BY <1>7, <2>1, <2>2 DEF Behind
<1>8. ASSUME NEW stop \in Stops, CompleteRequest(stop) PROVE ~Behind /\ ~Behind'
  BY <1>8, SMT DEF CompleteRequest, JournalInv, ProcessKnows, Behind, NoPending
<1>9. CASE UNCHANGED <<auth, pending>>
  BY <1>9 DEF Behind, Id
<1> QED
  BY <1>1, <1>2, <1>3, <1>4, <1>5, <1>6, <1>7, <1>8, <1>9
  DEF DataChanges, ChangePending, ChangeAuth

\* The transaction's entry lands in t's log, for the process or late.
Lands(t) ==
    /\ MayLand(t)
    /\ \/ CommitLanded(t) \/ CommitUnresolved(t)
       \/ \E p \in logPuts : /\ LateCommit(p) /\ p.table = t
                             /\ p.version = Len(log[t]) + 1

\* What a step may do to t's log.
LogMove(t) ==
    \/ log'[t] = log[t]
    \/ log'[t] = Append(log[t], AppendEntry(pending.batch, t)) /\ Lands(t)
    \/ log'[t] = Append(log[t], MaintenanceEntry({}, {}))
    \/ /\ log'[t] = Append(log[t], MaintenanceEntry(job[t].out, job[t].src))
       /\ OptimizeCommit(t) /\ job[t].src \subseteq Active(log[t])

\* A log grows by an entry of the transaction that may land, by an OPTIMIZE of
\* active files, or by an entry without files.
LEMMA LogMoves ==
    ASSUME TypeOK, LogInv, [Next]_vars, NEW t \in Tables
    PROVE  LogMove(t)
<1> USE DEF durable, process, maintenance, history
<1>1. DataChanges
  BY Changes
<1>2. log \in [Tables -> Seq(EntrySet)]
  BY DEF TypeOK
<1>3. ASSUME NEW u \in Tables, OpenTable(u) PROVE LogMove(t)
  <2>1. \/ log' = log
        \/ /\ log[u] = <<>>
           /\ log' = [log EXCEPT ![u] = <<MaintenanceEntry({}, {})>>]
    BY <1>3 DEF OpenTable
  <2>2. Append(<<>>, MaintenanceEntry({}, {})) = <<MaintenanceEntry({}, {})>>
    BY SMT
  <2> QED BY <1>2, <2>1, <2>2 DEF LogMove
<1>4. ASSUME NEW u \in Tables, step[u] = "sent", Committing,
             at[u] = Len(log[u]) + 1
      PROVE  MayLand(u)
  <2>1. StepCurrent(u)
    BY <1>4 DEF LogInv, StepsCurrent
  <2> QED BY <1>4, <2>1 DEF StepCurrent
<1>5. ASSUME NEW u \in Tables, CommitLanded(u) PROVE LogMove(t)
  <2>1. Landed(u) /\ MayLand(u)
    BY <1>4, <1>5 DEF CommitLanded
  <2> QED BY <1>2, <1>5, <2>1 DEF LogMove, Lands, Landed
<1>6. ASSUME NEW u \in Tables, CommitUnresolved(u) PROVE LogMove(t)
  <2>1. log' = log \/ (Landed(u) /\ MayLand(u))
    BY <1>4, <1>6 DEF CommitUnresolved
  <2> QED BY <1>2, <1>6, <2>1 DEF LogMove, Lands, Landed
<1>7. ASSUME NEW p \in logPuts, LateCommit(p) PROVE LogMove(t)
  <2>1. \/ log' = log
        \/ /\ p.version = Len(log[p.table]) + 1
           /\ log' = [log EXCEPT ![p.table] = Append(@, p.entry)]
    BY <1>7 DEF LateCommit
  <2>2. CASE log' = log
    BY <2>2 DEF LogMove
  <2>3. CASE p.version = Len(log[p.table]) + 1
    <3>1. MayLand(p.table) /\ p.entry = AppendEntry(pending.batch, p.table)
      BY <2>3 DEF LogInv, PutsCurrent
    <3>2. p.table \in Tables
      BY DEF TypeOK, LogPutSet
    <3> QED BY <1>2, <1>7, <2>1, <2>3, <3>1, <3>2 DEF LogMove, Lands
  <2> QED BY <2>1, <2>2, <2>3
<1>8. ASSUME NEW u \in Tables, OptimizeCommit(u) PROVE LogMove(t)
  <2>1. \/ log' = log
        \/ /\ job[u] # NoJob /\ Len(log[u]) = job[u].base
           /\ log' = [log EXCEPT ![u] =
                Append(@, MaintenanceEntry(job[u].out, job[u].src))]
    BY <1>8 DEF OptimizeCommit
  <2>2. job[u] # NoJob /\ Len(log[u]) = job[u].base
          => job[u].src \subseteq Active(log[u])
    BY DEF LogInv, JobsCurrent
  <2> QED BY <1>2, <1>8, <2>1, <2>2 DEF LogMove
<1>9. ASSUME NEW u \in Tables, LiteVacuum(u) PROVE LogMove(t)
  <2>1. log' = [log EXCEPT ![u] = Append(@, MaintenanceEntry({}, {}))]
    BY <1>9 DEF LiteVacuum
  <2> QED BY <1>2, <2>1 DEF LogMove
<1>10. CASE log' = log
  BY <1>10 DEF LogMove
<1> QED
  BY <1>1, <1>3, <1>5, <1>6, <1>7, <1>8, <1>9, <1>10 DEF DataChanges, ChangeLog

\* The entry e that a step appends to t's log.
Appended(t, e) ==
    \/ e.txn = 0 /\ e.add = {} /\ e.rem = {}
    \/ e.txn = pending.batch.last /\ e.add = {Own(t)} /\ e.rem = {} /\ Lands(t)
    \/ /\ e.txn = 0 /\ e.add = job[t].out /\ e.rem = job[t].src
       /\ OptimizeCommit(t) /\ job[t].src \subseteq Active(log[t])

\* A log stays or grows by one entry.
LEMMA LogGrows ==
    ASSUME TypeOK, LogInv, [Next]_vars, NEW t \in Tables
    PROVE  \/ log'[t] = log[t]
           \/ \E e : /\ Extends(log'[t], log[t], e) /\ Appended(t, e)
                     /\ Active(log'[t]) = (Active(log[t]) \ e.rem) \cup e.add
<1>1. log[t] \in Seq(EntrySet)
  BY LogTypes
<1>2. ASSUME NEW e \in EntrySet, log'[t] = Append(log[t], e)
      PROVE  /\ Extends(log'[t], log[t], e)
             /\ Active(log'[t]) = (Active(log[t]) \ e.rem) \cup e.add
  BY <1>1, <1>2, AppendEntries, ActiveAppend
<1>3. CASE log'[t] = Append(log[t], AppendEntry(pending.batch, t)) /\ Lands(t)
  <2>1. AppendEntry(pending.batch, t) \in EntrySet
    BY PartType DEF TypeOK, PendingSet
  <2>2. Appended(t, AppendEntry(pending.batch, t))
    BY <1>3, SMT DEF Appended, AppendEntry, Own
  <2> QED BY <1>2, <1>3, <2>1, <2>2
<1>4. CASE log'[t] = Append(log[t], MaintenanceEntry({}, {}))
  <2>1. MaintenanceEntry({}, {}) \in EntrySet
    BY MaintenanceType
  <2>2. Appended(t, MaintenanceEntry({}, {}))
    BY SMT DEF Appended, MaintenanceEntry
  <2> QED BY <1>2, <1>4, <2>1, <2>2
<1>5. CASE /\ log'[t] = Append(log[t], MaintenanceEntry(job[t].out, job[t].src))
           /\ OptimizeCommit(t) /\ job[t].src \subseteq Active(log[t])
  <2>1. MaintenanceEntry(job[t].out, job[t].src) \in EntrySet
    BY MaintenanceType DEF TypeOK, JobSet
  <2>2. Appended(t, MaintenanceEntry(job[t].out, job[t].src))
    BY <1>5, SMT DEF Appended, MaintenanceEntry
  <2> QED BY <1>2, <1>5, <2>1, <2>2
<1> QED BY <1>3, <1>4, <1>5, LogMoves DEF LogMove

\* What a log holds it keeps.
LEMMA LogKept ==
    ASSUME TypeOK, LogInv, [Next]_vars, NEW t \in Tables
    PROVE  /\ Len(log[t]) \in Nat /\ Len(log'[t]) \in Nat
           /\ Len(log[t]) <= Len(log'[t])
           /\ Versions(log[t]) \subseteq Versions(log'[t])
           /\ \A i \in Versions(log[t]) : log'[t][i] = log[t][i]
           /\ Len(log'[t]) = Len(log[t]) => log'[t] = log[t]
<1>1. Len(log[t]) \in Nat
  BY LogTypes
<1>2. CASE log'[t] = log[t]
  <2>1. Len(log[t]) <= Len(log[t])
    BY <1>1, SMT
  <2> QED BY <1>1, <1>2, <2>1
<1>3. ASSUME NEW e, Extends(log'[t], log[t], e)
      PROVE  /\ Len(log'[t]) = Len(log[t]) + 1
             /\ Versions(log[t]) \subseteq Versions(log'[t])
             /\ \A i \in Versions(log[t]) : log'[t][i] = log[t][i]
  BY <1>3 DEF Extends
<1>4. /\ Len(log[t]) + 1 \in Nat /\ Len(log[t]) <= Len(log[t]) + 1
      /\ Len(log[t]) + 1 # Len(log[t])
  BY <1>1, SMT
<1> QED BY <1>1, <1>2, <1>3, <1>4, LogGrows

\* A transaction shown stays shown.
LEMMA ShownStays ==
    ASSUME TypeOK, LogInv, [Next]_vars, UNCHANGED <<auth, pending>>,
           NEW t \in Tables, Shown(t)
    PROVE  Shown(t)'
<1>1. PICK i \in Versions(log[t]) : log[t][i].txn = pending.batch.last
  BY DEF Shown
<1>2. i \in Versions(log'[t]) /\ log'[t][i].txn = pending'.batch.last
  BY <1>1, LogKept
<1>3. Behind'
  BY DEF Shown, Behind, Id
<1> QED BY <1>2, <1>3 DEF Shown

-----------------------------------------------------------------------------
(* The files that the logs name.                                           *)

\* A file in a log's history was added to it; a writer's part that was added
\* is of an acknowledged batch, or the transaction shows there.
LEMMA NamedFiles ==
    ASSUME TypeOK, Logged, NEW t \in Tables, NEW f,
           f \in Active(log[t]) \cup Tombstones(log[t])
    PROVE  /\ f.table = t
           /\ f.by = 0 => \/ \E b \in installed : f.rows = {b}
                          \/ f.rows = {pending.batch} /\ Shown(t)
<1>1. \E i \in Versions(log[t]) : f \in log[t][i].add
  <2>1. CASE f \in Active(log[t])
    BY <2>1 DEF Active
  <2>2. ASSUME NEW i \in Versions(log[t]), f \in log[t][i].rem
        PROVE  \E j \in Versions(log[t]) : f \in log[t][j].add
    BY <2>2 DEF Logged, RemovesAdded
  <2> QED BY <2>1, <2>2 DEF Tombstones
<1>2. PICK i \in Versions(log[t]) : f \in log[t][i].add
  BY <1>1
<1>3. NamesOwn(log[t][i], t, installed \cup InCommit(t))
  BY DEF Logged
<1>4. f.table = t
  BY <1>2, <1>3 DEF NamesOwn
<1>5. ASSUME f.by = 0
      PROVE  \/ \E b \in installed : f.rows = {b}
             \/ f.rows = {pending.batch} /\ Shown(t)
  <2>1. PICK b \in installed \cup InCommit(t) :
                f.rows = {b} /\ log[t][i].txn = b.last
    BY <1>2, <1>3, <1>5 DEF NamesOwn
  <2>2. ASSUME b \in InCommit(t)
        PROVE  b = pending.batch /\ Shown(t)
    BY <1>2, <2>1, <2>2 DEF InCommit, Shown
  <2> QED BY <2>1, <2>2
<1> QED BY <1>4, <1>5

\* No log names the part of a table without its transaction.
LEMMA OwnUnnamed ==
    ASSUME TypeOK, JournalInv, Logged, NEW t \in Tables, NEW u \in Tables,
           \/ pending.phase = "Writing"
           \/ Behind /\ ~Shown(t)
    PROVE  Own(t) \notin Active(log[u]) \cup Tombstones(log[u])
<1> SUFFICES ASSUME Own(t) \in Active(log[u]) \cup Tombstones(log[u])
             PROVE  FALSE
  OBVIOUS
<1>1. Own(t).table = t /\ Own(t).by = 0 /\ Own(t).rows = {pending.batch}
  BY SMT DEF Own, Part
<1>2. /\ Own(t).table = u
      /\ Own(t).by = 0 => \/ \E b \in installed : Own(t).rows = {b}
                          \/ Own(t).rows = {pending.batch} /\ Shown(u)
  <2> HIDE DEF Own
  <2> QED BY NamedFiles
<1>3. pending.batch \notin installed
  BY WritingFacts, BehindFacts
<1>4. t = u /\ Shown(t)
  BY <1>1, <1>2, <1>3
<1> QED BY <1>4, WritingFacts DEF Shown

\* What is acknowledged or in commit for t stays so.
LEMMA KnownGrows ==
    ASSUME TypeOK, JournalInv, [Next]_vars, NEW t \in Tables
    PROVE  installed \cup InCommit(t) \subseteq (installed \cup InCommit(t))'
<1> USE DEF durable, process, maintenance, history
<1>1. installed' = installed \/ Advance
  BY Changes DEF DataChanges
<1>2. Advance => installed' = installed \cup {pending.batch}
  BY DEF Advance
<1>3. Behind => Advance \/ (UNCHANGED <<auth, pending>> /\ Behind')
  BY BehindMoves DEF Behind, Id
<1> QED BY <1>1, <1>2, <1>3 DEF InCommit

\* Logged is preserved: an entry that lands is the transaction's, and OPTIMIZE
\* removes what was added.
LEMMA LoggedStep ==
    ASSUME TypeOK, JournalInv, LogInv, FileInv, [Next]_vars
    PROVE  Logged'
<1> SUFFICES ASSUME NEW t \in Tables, NEW i \in Versions(log'[t])
             PROVE  /\ NamesOwn(log'[t][i], t, (installed \cup InCommit(t))')
                    /\ RemovesAdded(log'[t], i)
  BY DEF Logged
<1>1. installed \cup InCommit(t) \subseteq (installed \cup InCommit(t))'
  BY KnownGrows
<1>2. ASSUME i \in Versions(log[t])
      PROVE  /\ NamesOwn(log'[t][i], t, (installed \cup InCommit(t))')
             /\ RemovesAdded(log'[t], i)
  <2>1. /\ NamesOwn(log[t][i], t, installed \cup InCommit(t))
        /\ RemovesAdded(log[t], i)
    BY <1>2 DEF FileInv, Logged
  <2>2. log'[t][i] = log[t][i] /\ Versions(log[t]) \subseteq Versions(log'[t])
        /\ \A j \in Versions(log[t]) : log'[t][j] = log[t][j]
    BY <1>2, LogKept
  <2>3. NamesOwn(log'[t][i], t, (installed \cup InCommit(t))')
    BY <1>1, <2>1, <2>2, ZenonT(30) DEF NamesOwn
  <2>4. RemovesAdded(log'[t], i)
    BY <2>1, <2>2 DEF RemovesAdded
  <2> QED BY <2>3, <2>4
<1>3. ASSUME i \notin Versions(log[t])
      PROVE  /\ NamesOwn(log'[t][i], t, (installed \cup InCommit(t))')
             /\ RemovesAdded(log'[t], i)
  <2>1. PICK e : Extends(log'[t], log[t], e) /\ Appended(t, e)
    BY <1>3, LogGrows
  <2>2. /\ log'[t][i] = e /\ i = Len(log[t]) + 1
        /\ \A j \in Versions(log[t]) : /\ j < i /\ j \in Versions(log'[t])
                                       /\ log'[t][j] = log[t][j]
    BY <1>3, <2>1 DEF Extends
  <2>3. CASE e.add = {} /\ e.rem = {}
    BY <2>2, <2>3 DEF NamesOwn, RemovesAdded
  <2>4. CASE /\ e.txn = pending.batch.last /\ e.add = {Own(t)} /\ e.rem = {}
             /\ Lands(t)
    <3>1. pending.batch \in InCommit(t)
      BY <2>4 DEF Lands, MayLand, InCommit
    <3>2. Own(t).table = t /\ Own(t).rows = {pending.batch}
      BY SMT DEF Own, Part
    <3>3. pending.batch \in (installed \cup InCommit(t))'
      BY <1>1, <3>1
    <3> QED BY <2>2, <2>4, <3>2, <3>3 DEF NamesOwn, RemovesAdded
  <2>5. CASE /\ e.add = job[t].out /\ e.rem = job[t].src
             /\ job[t].src \subseteq Active(log[t])
    <3>1. \A f \in e.add : f.table = t /\ f.by # 0
      BY <2>5 DEF FileInv, JobsWritten
    <3>2. \A f \in e.rem : \E j \in Versions(log[t]) : f \in log[t][j].add
      BY <2>5 DEF Active
    <3> QED BY <2>2, <3>1, <3>2 DEF NamesOwn, RemovesAdded
  <2> QED BY <2>1, <2>3, <2>4, <2>5 DEF Appended
<1> QED BY <1>2, <1>3

-----------------------------------------------------------------------------
(* The process, its requests and the journal.                              *)

\* Settled is preserved: the owner record outlives an abandoned request.
LEMMA SettledStep ==
    ASSUME TypeOK, JournalInv, LogInv, FileInv, [Next]_vars
    PROVE  Settled'
<1> USE DEF durable, process, maintenance, history
<1>1. Settled /\ PartsInHand
  BY DEF FileInv
<1>2. DataChanges /\ ProcessChanges /\ PcChanges
  BY Changes
<1>3. CASE Finish
  <2>1. /\ pc' = "down" /\ ~latch' /\ UNCHANGED <<partOps, pending>>
        /\ owner' = IF latch THEN "retained" ELSE "free"
        /\ pc \in {"ready", "failing"}
    BY <1>3 DEF Finish, Forget
  <2>2. owner = "held"
    BY <1>1, <2>1 DEF Settled
  <2> QED BY <1>1, <2>1, <2>2 DEF Settled, Own
<1>4. ASSUME NEW o \in LivePartOps
      PROVE  /\ pending.phase = "Writing"
             /\ \E t \in pending.receipts : o.file = Own(t)
  <2>1. PICK t \in Tables :
            /\ o.file = Own(t) /\ step[t] = "sent"
            /\ pc \in {"writing", "rollback"}
    BY <1>4, SMT DEF LivePartOps, With, Own
  <2>2. pending.phase = "Writing"
    BY <2>1 DEF JournalInv, ProcessKnows
  <2>3. t \in pending.receipts
    BY <1>1, <2>1 DEF PartsInHand
  <2> QED BY <2>1, <2>2, <2>3
<1>5. CASE Crash
  <2>1. /\ pc' = "down" /\ ~latch' /\ owner' = "retained" /\ pending' = pending
        /\ partOps' = partOps \cup LivePartOps
    BY <1>5 DEF Crash, Forget
  <2> QED BY <1>1, <1>4, <2>1 DEF Settled, Own
<1>6. CASE Acquire
  <2>1. /\ pc = "down" /\ pc' = "opening" /\ owner = "free" /\ owner' = "held"
        /\ UNCHANGED <<partOps, pending, latch>>
    BY <1>6 DEF Acquire
  <2> QED BY <1>1, <2>1 DEF Settled
<1>7. CASE OperatorRelease
  <2>1. /\ pc = "down" /\ pc' = "down" /\ owner' = "free" /\ partOps = {}
        /\ UNCHANGED <<partOps, pending, latch>>
    BY <1>7 DEF OperatorRelease
  <2> QED BY <1>1, <2>1 DEF Settled
<1>8. ASSUME NEW t \in Tables, DeleteUnresolved(t) PROVE Settled'
  <2>1. /\ pc = "rollback" /\ pc' = "failing" /\ latch'
        /\ partOps' = partOps \cup LivePartOps
        /\ UNCHANGED <<owner, pending>>
    BY <1>8 DEF DeleteUnresolved
  <2> QED BY <1>1, <1>4, <2>1 DEF Settled, Own
<1>9. ASSUME NEW t \in Tables, PartUnresolved(t) PROVE Settled'
  <2>1. /\ pc = "writing" /\ pc' = "writing" /\ latch' /\ err'
        /\ partOps' = partOps \cup {[do |-> "put", file |-> Own(t)]}
        /\ step[t] = "sent" /\ UNCHANGED <<owner, pending>>
    BY <1>9 DEF PartUnresolved, Own
  <2>2. pending.phase = "Writing" /\ t \in pending.receipts
    BY <1>1, <2>1 DEF PartsInHand, JournalInv, ProcessKnows
  <2>3. [do |-> "put", file |-> Own(t)].file = Own(t)
    BY SMT
  <2> QED BY <1>1, <2>1, <2>2, <2>3 DEF Settled, Own
<1>10. ASSUME NEW t \in Tables, PartPublished(t) PROVE Settled'
  <2>1. /\ pc = "writing" /\ pc' = "writing"
        /\ (latch => latch') /\ (err => err') /\ (latch' => latch \/ err')
        /\ UNCHANGED <<owner, pending, partOps>>
    BY <1>10 DEF PartPublished
  <2>2. /\ latch => latch'
        /\ latch' => err'
    BY <1>1, <2>1 DEF Settled
  <2> QED BY <1>1, <2>1, <2>2 DEF Settled, Own
<1>11. ASSUME NEW o \in partOps, LateOp(o) PROVE Settled'
  <2>1. /\ partOps' \subseteq partOps
        /\ UNCHANGED <<pc, owner, latch, err, pending>>
    BY <1>11 DEF LateOp
  <2> QED BY <1>1, <2>1 DEF Settled, Own
<1>12. CASE ChangePending
  <2>1. /\ pc \in {"ready", "clear"} \/ (pc = "writing" /\ ~err)
        /\ pc' # "down" /\ UNCHANGED <<owner, partOps, latch>>
    BY <1>12
    DEF ChangePending, Begin, RecordReceipts, MarkCommitted, Clear, Refuse
  <2>2. partOps = {} /\ ~latch
    BY <1>1, <2>1, NothingAbandoned
  <2> QED BY <1>1, <2>1, <2>2 DEF Settled
<1>13. CASE /\ UNCHANGED <<pending, partOps, latch, owner>>
            /\ ~Acquire /\ ~Finish /\ ~Crash
  <2>1. pc' = "down" <=> pc = "down"
    BY <1>2, <1>13 DEF PcChanges
  <2>2. err => err'
    BY <1>2, <1>13 DEF ProcessChanges
  <2>3. /\ pc = "failing" => pc' = "failing"
        /\ pc = "writing" /\ err => pc' \in {"writing", "failing"}
    BY <1>2, <1>13 DEF PcChanges
  <2> QED BY <1>1, <1>13, <2>1, <2>2, <2>3 DEF Settled, Own
<1> QED
  BY <1>2, <1>3, <1>5, <1>6, <1>7, <1>8, <1>9, <1>10, <1>11, <1>12, <1>13
  DEF DataChanges, ProcessChanges

\* Opened is preserved: a journal is begun, and an authority advanced, only by
\* a process that has opened every table.
LEMMA OpenedStep ==
    ASSUME TypeOK, TypeOK', JournalInv, LogInv, FileInv, [Next]_vars
    PROVE  Opened'
<1> USE DEF durable, process, maintenance, history
<1>1. Opened
  BY DEF FileInv
<1>2. DataChanges /\ ProcessChanges /\ PcChanges
  BY Changes
<1>3. \A t \in Tables : /\ snap[t] \in Nat /\ snap[t] <= Len(log[t])
                        /\ Len(log[t]) \in Nat
  BY LogTypes DEF LogInv, StepsCurrent, TypeOK
<1>4. \A t \in Tables : snap[t] # 0 => log[t] # <<>>
  <2>1. ASSUME NEW t \in Tables, snap[t] # 0, log[t] = <<>> PROVE FALSE
    BY <1>3, <2>1, SMT
  <2> QED BY <2>1
<1>5. ASSUME NEW t \in Tables, log[t] # <<>> PROVE log'[t] # <<>>
  <2>1. log[t] \in Seq(EntrySet) /\ log'[t] \in Seq(EntrySet)
    BY DEF TypeOK
  <2>2. Len(log[t]) # 0
    BY <1>5, <2>1, SMT
  <2>3. Len(log'[t]) # 0
    BY <2>2, LogKept, SMT
  <2> QED BY <2>3, SMT
<1>6. CASE Finish \/ Crash
  <2>1. /\ pc' = "down" /\ snap' = Never
        /\ UNCHANGED <<pending, auth, log>>
    BY <1>6 DEF Finish, Crash, Forget
  <2> QED BY <1>1, <2>1 DEF Opened, Never
<1>7. ASSUME ~(Finish \/ Crash)
      PROVE  \A t \in Tables : snap[t] # 0 => snap'[t] # 0
  <2>1. ASSUME NEW u \in Tables, OpenTable(u), NEW t \in Tables, snap[t] # 0
        PROVE  snap'[t] # 0
    <3>1. snap[u] = 0 /\ (snap' = snap \/ snap' = [snap EXCEPT ![u] = Len(log'[u])])
      BY <2>1 DEF OpenTable
    <3> QED BY <2>1, <3>1 DEF TypeOK
  <2>2. ASSUME NEW u \in Tables, CommitLanded(u), NEW t \in Tables, snap[t] # 0
        PROVE  snap'[t] # 0
    <3>1. snap' = [snap EXCEPT ![u] = Len(log[u]) + 1]
      BY <2>2 DEF CommitLanded
    <3>2. Len(log[u]) + 1 # 0
      BY <1>3, SMT
    <3> QED BY <2>2, <3>1, <3>2 DEF TypeOK
  <2>3. ASSUME NEW u \in Tables, CommitRefused(u), NEW t \in Tables, snap[t] # 0
        PROVE  snap'[t] # 0
    <3>1. snap' = snap \/ snap' = [snap EXCEPT ![u] = Len(log[u])]
      BY <2>3 DEF CommitRefused
    <3>2. snap[u] # 0 => Len(log[u]) # 0
      BY <1>3, SMT
    <3> QED BY <2>3, <3>1, <3>2 DEF TypeOK
  <2> QED BY <1>2, <1>7, <2>1, <2>2, <2>3 DEF ProcessChanges
<1>8. ASSUME ~(Finish \/ Crash), pc' \notin {"down", "opening", "failing"}
      PROVE  \A t \in Tables : snap'[t] # 0
  <2>1. pc \notin {"down", "opening", "failing"} \/ CheckProgress
    <3>1. pc' \in {"rollback", "forward", "ready", "writing", "commit",
                   "advance", "mirror", "clear"}
      BY <1>8 DEF TypeOK
    <3>2. ASSUME NEW b \in Batches(auth), Begin(b) PROVE pc = "ready"
      BY <3>2 DEF Begin
    <3> QED BY <1>2, <3>1, <3>2
            DEF PcChanges, MarkCommitted, RollbackDone, ReconcileMirror
  <2>2. CheckProgress => \A t \in Tables : snap[t] # 0
    BY DEF CheckProgress
  <2> QED BY <1>1, <1>7, <1>8, <2>1, <2>2 DEF Opened
<1>9. ASSUME ~(Finish \/ Crash), pc' = "down"
      PROVE  \A t \in Tables : snap'[t] = 0
  <2>1. pc = "down"
    BY <1>2, <1>9 DEF PcChanges
  <2>2. snap' = snap
    BY <1>2, <1>9, <2>1
    DEF ProcessChanges, OpenTable, CommitLanded, CommitRefused, Committing
  <2> QED BY <1>1, <2>1, <2>2 DEF Opened
<1>10. ASSUME ~(Finish \/ Crash), pending' # NoPending \/ auth'.ordinal > 0
       PROVE  \A t \in Tables : log'[t] # <<>>
  <2>1. \/ pending # NoPending \/ auth.ordinal > 0
        \/ pc \notin {"down", "opening", "failing"}
    <3>1. CASE Initialize
      <4>1. pending' = pending /\ (auth' = auth \/ auth' = Initial)
        BY <3>1 DEF Initialize
      <4>2. ~(Initial.ordinal > 0)
        BY SMT DEF Initial
      <4> QED BY <1>10, <4>1, <4>2
    <3>2. CASE ChangePending
      BY <3>2
      DEF ChangePending, Begin, RecordReceipts, MarkCommitted, Clear
    <3>3. CASE Advance \/ \E stop \in Stops : CompleteRequest(stop)
      BY <3>3 DEF Advance, CompleteRequest
    <3> QED BY <1>2, <1>10, <3>1, <3>2, <3>3 DEF DataChanges, ChangeAuth
  <2> QED BY <1>1, <1>4, <1>5, <2>1 DEF Opened
<1> QED BY <1>6, <1>8, <1>9, <1>10 DEF Opened

\* FilesKnown is preserved: a part enters the store with a durable receipt, and
\* a journal leaves with its parts deleted or acknowledged.
LEMMA FilesKnownStep ==
    ASSUME TypeOK, JournalInv, LogInv, FileInv, [Next]_vars
    PROVE  FilesKnown'
<1> USE DEF durable, process, maintenance, history
<1>1. FilesKnown /\ Settled /\ PartsInHand
  BY DEF FileInv
<1>2. DataChanges
  BY Changes
<1> DEFINE Known(f) ==
        \/ \E b \in installed : f.rows = {b}
        \/ /\ pending # NoPending
           /\ \E t \in pending.batch.tabs :
                /\ f = Own(t)
                /\ pending.phase = "Writing" => t \in pending.receipts
<1>3. ASSUME NEW f \in files', f.by = 0 PROVE Known(f)
  <2>1. CASE f \in files
    BY <1>1, <1>3, <2>1 DEF FilesKnown
  <2>2. ASSUME NEW t \in pending.receipts, pending.phase = "Writing", f = Own(t)
        PROVE  Known(f)
    BY <2>2, WritingFacts
  <2>3. ASSUME NEW t \in Tables, PartPublished(t), f \notin files PROVE Known(f)
    <3>1. f = Own(t) /\ pc = "writing" /\ step[t] = "sent"
      BY <1>3, <2>3 DEF PartPublished, Own
    <3>2. pending.phase = "Writing" /\ t \in pending.receipts
      BY <1>1, <3>1 DEF PartsInHand, JournalInv, ProcessKnows
    <3> QED BY <2>2, <3>1, <3>2
  <2>4. ASSUME NEW o \in partOps, LateOp(o), f \notin files PROVE Known(f)
    <3>1. f = o.file
      BY <1>3, <2>4 DEF LateOp
    <3> QED BY <1>1, <2>2, <3>1 DEF Settled
  <2>5. ASSUME NEW t \in Tables, OptimizeWrite(t) PROVE f \in files
    <3>1. made \in Nat /\ made + 1 # 0
      BY SMT DEF TypeOK
    <3>2. \E r : files' = files \cup {[table |-> t, rows |-> r, by |-> made + 1]}
      BY <2>5 DEF OptimizeWrite
    <3>3. \A r : [table |-> t, rows |-> r, by |-> made + 1].by = made + 1
      BY SMT
    <3> QED BY <1>3, <3>1, <3>2, <3>3
  <2>6. CASE \E t \in Tables : DeleteDone(t) \/ LiteVacuum(t) \/ FullVacuumRun(t)
    BY <1>3, <2>1, <2>6 DEF DeleteDone, LiteVacuum, FullVacuumRun
  <2> QED
    BY <1>2, <1>3, <2>1, <2>3, <2>4, <2>5, <2>6 DEF DataChanges, ChangeFiles
<1>4. installed \subseteq installed'
  BY <1>2 DEF DataChanges, Advance
<1>5. CASE pending' = pending
  <2>1. ASSUME NEW f \in files', f.by = 0 PROVE Known(f)'
    BY <1>3, <1>4, <1>5, <2>1 DEF Own
  <2>2. ASSUME pending.phase = "Committed", ~Behind' PROVE pending.batch \in installed'
    <3>1. CASE ~Behind
      BY <1>1, <1>4, <2>2, <3>1 DEF FilesKnown
    <3>2. CASE Behind
      <4>1. Advance \/ UNCHANGED <<auth, pending>>
        BY <3>2, BehindMoves
      <4>2. Advance
        BY <2>2, <3>2, <4>1 DEF Behind, Id
      <4> QED BY <4>2 DEF Advance
    <3> QED BY <3>1, <3>2
  <2> QED BY <1>5, <2>1, <2>2 DEF FilesKnown
<1>6. ASSUME NEW b \in Batches(auth), Begin(b) PROVE FilesKnown'
  <2>1. pending = NoPending /\ files' = files /\ installed' = installed
    BY <1>6 DEF Begin, JournalInv, ProcessKnows
  <2>2. pending' = pending \/ pending'.phase = "Writing"
    BY <1>6, SMT DEF Begin
  <2> QED BY <1>3, <1>5, <2>1, <2>2 DEF FilesKnown
<1>7. ASSUME NEW r \in SUBSET Tables, RecordReceipts(r) PROVE FilesKnown'
  <2>1. /\ pending.phase = "Writing" /\ pending'.phase = "Writing"
        /\ pending'.batch = pending.batch
        /\ pending.receipts \subseteq pending'.receipts
        /\ UNCHANGED <<files, installed>>
    BY <1>7 DEF RecordReceipts, JournalInv, ProcessKnows, TypeOK, PendingSet
  <2>2. pending' # NoPending
    BY <2>1, SMT DEF NoPending
  <2> QED BY <1>3, <2>1, <2>2 DEF FilesKnown, Own
<1>8. CASE MarkCommitted /\ pending' # pending
  <2>1. /\ pending' = [pending EXCEPT !.phase = "Committed"]
        /\ pending.phase = "Writing" /\ auth = pending.pred
        /\ UNCHANGED <<files, installed, auth>>
    BY <1>8 DEF MarkCommitted, JournalInv, ProcessKnows
  <2>2. /\ pending'.phase = "Committed" /\ pending'.batch = pending.batch
        /\ pending'.pred = pending.pred
    BY <2>1 DEF TypeOK, PendingSet
  <2>3. pending' # NoPending
    BY <2>2, SMT DEF NoPending
  <2>4. Behind'
    BY <2>1, <2>2 DEF Behind
  <2> QED BY <1>3, <2>1, <2>2, <2>3, <2>4 DEF FilesKnown, Own
<1>9. CASE Clear
  <2>1. pc = "clear" /\ pending' = NoPending /\ UNCHANGED <<files, installed>>
    BY <1>9 DEF Clear
  <2>2. pending'.phase # "Committed"
    BY <2>1, SMT DEF NoPending
  <2>3. ASSUME NEW f \in files', f.by = 0 PROVE \E b \in installed : f.rows = {b}
    <3>1. CASE pending.phase = "Writing"
      BY <1>1, <1>3, <2>1, <2>3, <3>1, WritingFacts DEF PartsInHand
    <3>2. CASE pending.phase = "Committed"
      <4>1. ~Behind
        BY <2>1, BehindPlaces
      <4>2. \A t : Own(t).rows = {pending.batch}
        BY SMT DEF Own, Part
      <4> QED BY <1>1, <1>3, <2>3, <3>2, <4>1, <4>2 DEF FilesKnown
    <3> QED BY <2>1, <3>1, <3>2 DEF JournalInv, ProcessKnows
  <2> QED BY <2>1, <2>2, <2>3 DEF FilesKnown
<1> QED BY <1>2, <1>5, <1>6, <1>7, <1>8, <1>9 DEF DataChanges, ChangePending

\* The files that leave the store, and those that enter it.
FilesMove ==
    /\ \A f \in files : f \in files' \/
        \/ pending.phase = "Writing" /\ \E t \in Tables : f = Own(t)
        \/ \E t \in Tables : LiteVacuum(t) /\ f \in Expired(t)
        \/ \E t \in Tables : /\ FullVacuumRun(t) /\ f.table = t
                             /\ f \notin Active(log[t])
    /\ \A f \in files' : f \in files \/ f.by # 0 \/
        /\ pending.phase = "Writing"
        /\ partOps # {} \/ \E t \in Tables : PartPublished(t) /\ f = Own(t)

\* A file leaves by a rollback, an abandoned DELETE or VACUUM, and a writer's
\* part enters by a publication.
LEMMA FilesMoves ==
    ASSUME TypeOK, JournalInv, LogInv, FileInv, [Next]_vars
    PROVE  FilesMove
<1> USE DEF durable, process, maintenance, history
<1>1. DataChanges /\ Settled /\ PartsInHand
  BY Changes DEF FileInv
<1>2. ASSUME NEW t \in Tables, DeleteDone(t) PROVE FilesMove
  <2>1. files' = files \ {Own(t)} /\ pending.phase = "Writing"
    BY <1>2 DEF DeleteDone, Own, JournalInv, ProcessKnows
  <2> QED BY <2>1 DEF FilesMove
<1>3. ASSUME NEW t \in Tables, PartPublished(t) PROVE FilesMove
  <2>1. files' \subseteq files \cup {Own(t)} /\ files \subseteq files'
        /\ pending.phase = "Writing"
    BY <1>3 DEF PartPublished, Own, JournalInv, ProcessKnows
  <2> QED BY <1>3, <2>1 DEF FilesMove
<1>4. ASSUME NEW t \in Tables, OptimizeWrite(t) PROVE FilesMove
  <2>1. made \in Nat /\ made + 1 # 0
    BY SMT DEF TypeOK
  <2>2. \E r : files' = files \cup {[table |-> t, rows |-> r, by |-> made + 1]}
    BY <1>4 DEF OptimizeWrite
  <2>3. \A r : [table |-> t, rows |-> r, by |-> made + 1].by = made + 1
    BY SMT
  <2> QED BY <2>1, <2>2, <2>3 DEF FilesMove
<1>5. ASSUME NEW t \in Tables, LiteVacuum(t) PROVE FilesMove
  <2>1. files' = files \ Expired(t)
    BY <1>5 DEF LiteVacuum
  <2> QED BY <1>5, <2>1 DEF FilesMove
<1>6. ASSUME NEW t \in Tables, FullVacuumRun(t) PROVE FilesMove
  <2>1. files' = files \ {f \in files : f.table = t /\ f \notin Active(log[t])}
    BY <1>6 DEF FullVacuumRun
  <2> QED BY <1>6, <2>1 DEF FilesMove
<1>7. ASSUME NEW o \in partOps, LateOp(o) PROVE FilesMove
  <2>1. PICK t \in pending.receipts : o.file = Own(t) /\ pending.phase = "Writing"
    BY <1>1 DEF Settled
  <2>2. t \in Tables
    BY <2>1, WritingFacts
  <2>3. files' \subseteq files \cup {Own(t)} /\ files \ {Own(t)} \subseteq files'
    BY <1>7, <2>1 DEF LateOp
  <2> QED BY <2>1, <2>2, <2>3 DEF FilesMove
<1>8. CASE files' = files
  BY <1>8 DEF FilesMove
<1> QED
  BY <1>1, <1>2, <1>3, <1>4, <1>5, <1>6, <1>7, <1>8 DEF DataChanges, ChangeFiles

\* VACUUM leaves the part of a table without its transaction, unless that
\* part is untracked and older than the retention of a full VACUUM.
LEMMA OwnStays ==
    ASSUME TypeOK, JournalInv, LogInv, FileInv, [Next]_vars, NEW t \in Tables,
           \/ pending.phase = "Writing" /\ pc \notin {"down", "failing", "rollback"}
              /\ ~(pc = "writing" /\ err)
           \/ Behind /\ ~Shown(t),
           Own(t) \in files
    PROVE  Own(t) \in files' \/ FullVacuumRun(t)
<1> USE DEF durable, process, maintenance, history
<1>1. ASSUME NEW u \in Tables, LiteVacuum(u) PROVE Own(t) \notin Expired(u)
  <2>1. Own(t) \notin Tombstones(log[u])
    BY OwnUnnamed DEF FileInv
  <2>2. Expired(u) \subseteq Tombstones(log[u])
    BY DEF Expired
  <2> QED BY <2>1, <2>2
<1>2. ASSUME NEW u \in Tables, FullVacuumRun(u), Own(t).table = u PROVE u = t
  BY <1>2, SMT DEF Own, Part
<1>3. CASE Behind
  BY <1>1, <1>2, <1>3, FilesMoves DEF FilesMove, Behind
<1>4. CASE /\ pending.phase = "Writing" /\ pc \notin {"down", "failing", "rollback"}
           /\ ~(pc = "writing" /\ err)
  <2>1. partOps = {}
    BY <1>4, NothingAbandoned DEF FileInv
  <2>2. DataChanges
    BY Changes
  <2> QED
    BY <1>1, <1>2, <1>4, <2>1, <2>2
    DEF DataChanges, ChangeFiles, DeleteDone, PartPublished, OptimizeWrite,
        LiteVacuum, FullVacuumRun
<1> QED BY <1>3, <1>4

\* PartsInHand is preserved while parts are published.
LEMMA WritingStep ==
    ASSUME TypeOK, JournalInv, LogInv, FileInv, [Next]_vars, pc' = "writing",
           NEW t \in Tables
    PROVE  /\ step'[t] \in {"sent", "done"} => t \in pending'.receipts
           /\ step'[t] = "done" /\ ~err' => Own(t)' \in files'
<1> USE DEF durable, process, maintenance, history
<1>1. PartsInHand /\ DataChanges /\ ProcessChanges /\ PcChanges
  BY Changes DEF FileInv
<1>2. ASSUME NEW b \in Batches(auth), Begin(b)
      PROVE  step'[t] \in {"todo", "off"}
  <2>1. step' = Queue(b.tabs)
    BY <1>2 DEF Begin, Refuse
  <2> QED BY <2>1 DEF Queue
<1>3. CASE pc = "writing"
  <2>1. /\ pending'.batch = pending.batch
        /\ pending.receipts \subseteq pending'.receipts
    <3>1. pending' = pending \/ \E r \in SUBSET Tables : RecordReceipts(r)
      BY <1>1, <1>3
      DEF DataChanges, ChangePending, Begin, MarkCommitted, Clear, Refuse
    <3>2. ASSUME NEW r \in SUBSET Tables, RecordReceipts(r)
          PROVE  /\ pending'.batch = pending.batch
                 /\ pending.receipts \subseteq pending'.receipts
      BY <3>2 DEF RecordReceipts, TypeOK, PendingSet
    <3> QED BY <3>1, <3>2
  <2>2. pending.phase = "Writing"
    BY <1>3 DEF JournalInv, ProcessKnows
  <2>3. \/ step'[t] = step[t]
        \/ step'[t] = "sent" /\ t \in pending.receipts
        \/ step'[t] = "done" /\ step[t] = "sent" /\ Own(t) \in files'
        \/ step'[t] = "failed"
    <3>1. CASE step' = step
      BY <3>1
    <3>2. ASSUME NEW u \in Tables, SendPart(u)
          PROVE  step' = [step EXCEPT ![u] = "sent"] /\ u \in pending.receipts
      BY <3>2 DEF SendPart
    <3>3. ASSUME NEW u \in Tables, PartPublished(u)
          PROVE  \/ step' = [step EXCEPT ![u] = "failed"]
                 \/ /\ step' = [step EXCEPT ![u] = "done"] /\ step[u] = "sent"
                    /\ Own(u) \in files'
      BY <3>3 DEF PartPublished, Own
    <3>4. ASSUME NEW u \in Tables, PartRejected(u) \/ PartUnresolved(u)
          PROVE  step' = [step EXCEPT ![u] = "failed"]
      BY <3>4 DEF PartRejected, PartUnresolved
    <3>5. \/ step' = step
          \/ \E u \in Tables : \/ SendPart(u) \/ PartPublished(u)
                               \/ PartRejected(u) \/ PartUnresolved(u)
      BY <1>1, <1>3
      DEF ProcessChanges, ChangeStep, CheckProgress, MarkCommitted, Clear, Begin,
          SendDelete, DeleteDone, DeleteUnresolved, SendCommit, CommitLanded,
          CommitUnresolved, CommitRefused, Finish, Crash, Forget, Committing,
          Refuse
    <3> QED BY <3>1, <3>2, <3>3, <3>4, <3>5 DEF TypeOK
  <2>4. ASSUME step[t] = "done", ~err' PROVE Own(t) \in files'
    <3>1. ~err
      BY <1>1, <2>4 DEF ProcessChanges, Finish, Crash, Forget
    <3>2. Own(t) \in files
      BY <1>1, <1>3, <2>4, <3>1 DEF PartsInHand
    <3> QED BY <1>3, <2>2, <3>1, <3>2, OwnStays DEF FullVacuumRun
  <2> QED BY <1>1, <1>3, <2>1, <2>3, <2>4 DEF PartsInHand, Own
<1> QED BY <1>1, <1>2, <1>3 DEF PcChanges

\* Without an abandoned request, no part of the journalled transaction appears
\* unless it is published.
LEMMA OwnAbsent ==
    ASSUME TypeOK, JournalInv, LogInv, FileInv, [Next]_vars, NEW t \in Tables,
           pc \in {"rollback", "clear"}, Own(t) \in files'
    PROVE  Own(t) \in files
<1>1. partOps = {}
  BY NothingAbandoned DEF FileInv
<1>2. Own(t).by = 0
  BY SMT DEF Own, Part
<1>3. \A u \in Tables : ~PartPublished(u)
  BY DEF PartPublished
<1> QED BY <1>1, <1>2, <1>3, FilesMoves DEF FilesMove

\* PartsInHand is preserved while parts are deleted.
LEMMA RollbackStep ==
    ASSUME TypeOK, JournalInv, LogInv, FileInv, [Next]_vars, pc' = "rollback",
           NEW t \in Tables
    PROVE  /\ step'[t] \in {"todo", "sent"} => t \in pending'.receipts
           /\ Own(t)' \in files' => step'[t] \in {"todo", "sent"}
<1> USE DEF durable, process, maintenance, history
<1>1. PartsInHand /\ DataChanges /\ ProcessChanges /\ PcChanges
  BY Changes DEF FileInv
<1>2. CASE CheckProgress
  <2>1. /\ pending.phase = "Writing" /\ UNCHANGED <<pending, files>>
        /\ \A u \in pending.batch.tabs \ pending.receipts : Own(u) \notin files
        /\ step' = Queue({u \in pending.receipts : Own(u) \in files})
    BY <1>2 DEF CheckProgress, RecoverWriting, RecoverCommitted, Refuse, Own
  <2>2. step'[t] = IF t \in pending.receipts /\ Own(t) \in files
                   THEN "todo" ELSE "off"
    BY <2>1 DEF Queue
  <2>3. ASSUME Own(t) \in files PROVE t \in pending.receipts
    <3>1. Own(t).by = 0 /\ Own(t).rows = {pending.batch}
          /\ \A u : Own(u).table = u
      BY SMT DEF Own, Part
    <3>2. \A b \in installed : {pending.batch} # {b}
      BY <2>1, WritingFacts
    <3>3. \/ \E b \in installed : Own(t).rows = {b}
          \/ \E u \in pending.batch.tabs :
                /\ Own(t) = Own(u)
                /\ pending.phase = "Writing" => u \in pending.receipts
      <4> HIDE DEF Own
      <4> QED BY <2>3, <3>1 DEF FileInv, FilesKnown
    <3>4. PICK u \in pending.receipts : Own(t) = Own(u)
      BY <2>1, <3>1, <3>2, <3>3
    <3> QED BY <3>1, <3>4
  <2> QED BY <2>1, <2>2, <2>3 DEF Own
<1>3. CASE pc = "rollback"
  <2>1. pending' = pending
    BY <1>1, <1>3
    DEF DataChanges, ChangePending, Begin, RecordReceipts, MarkCommitted, Clear
  <2>2. Own(t) \in files' => Own(t) \in files
    BY <1>3, OwnAbsent
  <2>3. \/ step'[t] = step[t]
        \/ step'[t] = "sent" /\ step[t] = "todo"
        \/ step'[t] = "done" /\ Own(t) \notin files'
    <3>1. CASE step' = step
      BY <3>1
    <3>2. ASSUME NEW u \in Tables, SendDelete(u)
          PROVE  \/ step'[t] = step[t]
                 \/ step'[t] = "sent" /\ step[t] = "todo"
      <4>1. step' = [step EXCEPT ![u] = "sent"] /\ step[u] = "todo"
        BY <3>2 DEF SendDelete
      <4> QED BY <4>1 DEF TypeOK
    <3>3. ASSUME NEW u \in Tables, DeleteDone(u)
          PROVE  \/ step'[t] = step[t]
                 \/ step'[t] = "done" /\ Own(t) \notin files'
      <4>1. step' = [step EXCEPT ![u] = "done"] /\ Own(u) \notin files'
        BY <3>3 DEF DeleteDone, Own
      <4> QED BY <4>1 DEF TypeOK
    <3>4. step' = step \/ \E u \in Tables : SendDelete(u) \/ DeleteDone(u)
      BY <1>1, <1>3
      DEF ProcessChanges, ChangeStep, CheckProgress, MarkCommitted, Clear, Begin,
          DeleteUnresolved, SendPart, PartPublished, PartRejected,
          PartUnresolved, SendCommit, CommitLanded, CommitUnresolved,
          CommitRefused, Finish, Crash, Forget, Committing
    <3> QED BY <3>1, <3>2, <3>3, <3>4
  <2>4. Own(t)' = Own(t)
    BY <2>1 DEF Own
  <2> QED BY <1>1, <1>3, <2>1, <2>2, <2>3, <2>4 DEF PartsInHand
<1> QED BY <1>1, <1>2, <1>3 DEF PcChanges

\* PartsInHand is preserved: a rolled back journal is cleared without parts.
LEMMA PartsInHandStep ==
    ASSUME TypeOK, JournalInv, LogInv, FileInv, [Next]_vars
    PROVE  PartsInHand'
<1> USE DEF durable, process, maintenance, history
<1>1. PartsInHand /\ DataChanges /\ PcChanges
  BY Changes DEF FileInv
<1>2. ASSUME pc' = "clear", pending'.phase = "Writing", NEW t \in Tables
      PROVE  Own(t)' \notin files'
  <2>1. CASE RollbackDone
    <3>1. /\ pc = "rollback" /\ UNCHANGED <<pending, files>>
          /\ With("todo") = {} /\ With("sent") = {}
      BY <2>1 DEF RollbackDone
    <3> QED BY <1>1, <3>1 DEF PartsInHand, With, Own
  <2>2. CASE ReconcileMirror
    <3>1. pc = "mirror" /\ pending' = pending
      BY <2>2 DEF ReconcileMirror
    <3> QED BY <1>2, <3>1, WritingFacts DEF JournalInv, ProcessKnows
  <2>3. CASE pc = "clear"
    <3>1. pending' = pending
      BY <1>1, <1>2, <2>3
      DEF DataChanges, ChangePending, Begin, RecordReceipts, MarkCommitted, Clear
    <3>2. Own(t) \notin files
      BY <1>1, <1>2, <2>3, <3>1 DEF PartsInHand
    <3> QED BY <2>3, <3>1, <3>2, OwnAbsent DEF Own
  <2> QED BY <1>1, <1>2, <2>1, <2>2, <2>3 DEF PcChanges
<1> QED BY <1>2, WritingStep, RollbackStep DEF PartsInHand

-----------------------------------------------------------------------------
(* The files that the logs, OPTIMIZE and recovery need.                    *)

\* The files of a table's log, and of its OPTIMIZE, survive every step that
\* removes files.
LEMMA NamedStay ==
    ASSUME TypeOK, JournalInv, LogInv, FileInv, [Next]_vars, NEW t \in Tables,
           NEW f \in files, f.table = t,
           \/ f \in Active(log[t])
           \/ f.by # 0 /\ job[t] # NoJob
    PROVE  f \in files'
<1> SUFFICES ASSUME f \notin files' PROVE FALSE
  OBVIOUS
<1>1. ASSUME NEW u \in Tables, f = Own(u), pending.phase = "Writing" PROVE FALSE
  <2>1. Own(u).by = 0
    BY SMT DEF Own, Part
  <2>2. f \notin Active(log[t])
    BY <1>1, OwnUnnamed DEF FileInv
  <2> QED BY <1>1, <2>1, <2>2
<1>2. ASSUME NEW u \in Tables, LiteVacuum(u), f \in Expired(u) PROVE FALSE
  <2>1. f \in Tombstones(log[u])
    BY <1>2 DEF Expired
  <2>2. u = t
    BY <2>1, NamedFiles DEF FileInv
  <2> QED BY <1>2, <2>1, <2>2 DEF Tombstones, LiteVacuum
<1>3. ASSUME NEW u \in Tables, FullVacuumRun(u), f.table = u,
             f \notin Active(log[u])
      PROVE  FALSE
  BY <1>3 DEF FullVacuumRun
<1> QED BY <1>1, <1>2, <1>3, FilesMoves DEF FilesMove

\* JobsWritten is preserved.
LEMMA JobsWrittenStep ==
    ASSUME TypeOK, JournalInv, LogInv, FileInv, [Next]_vars
    PROVE  JobsWritten'
<1> USE DEF durable, process, maintenance, history
<1>1. DataChanges /\ JobsWritten
  BY Changes DEF FileInv
<1>2. NoJob.out = {}
  BY SMT DEF NoJob
<1>3. ASSUME NEW t \in Tables, NEW f \in job[t].out
      PROVE  f.table = t /\ f.by # 0 /\ f \in files'
  <2>1. f.table = t /\ f.by # 0 /\ f \in files /\ job[t] # NoJob
    BY <1>1, <1>2 DEF JobsWritten
  <2> QED BY <2>1, NamedStay
<1>4. ASSUME NEW t \in Tables, OptimizeWrite(t), NEW u \in Tables,
             NEW f \in job'[u].out
      PROVE  f.table = u /\ f.by # 0 /\ f \in files'
  <2>1. made \in Nat /\ made + 1 # 0
    BY SMT DEF TypeOK
  <2>2. PICK src : LET out == [table |-> t, rows |-> UNION {g.rows : g \in src},
                               by |-> made + 1]
                   IN  /\ files' = files \cup {out}
                       /\ job' = [job EXCEPT ![t] =
                            [base |-> Len(log[t]), src |-> src, out |-> {out}]]
    BY <1>4 DEF OptimizeWrite
  <2> DEFINE out == [table |-> t, rows |-> UNION {g.rows : g \in src}, by |-> made + 1]
  <2>3. out.table = t /\ out.by = made + 1
    BY SMT
  <2>4. files' = files \cup {out} /\ (job'[t].out = {out})
        /\ (u # t => job'[u] = job[u])
    <3>1. /\ files' = files \cup {out}
          /\ job' = [job EXCEPT ![t] = [base |-> Len(log[t]), src |-> src, out |-> {out}]]
      BY <2>2
    <3>2. [base |-> Len(log[t]), src |-> src, out |-> {out}].out = {out}
      BY SMT
    <3> QED BY <3>1, <3>2 DEF TypeOK
  <2> HIDE DEF out
  <2>5. CASE u = t
    BY <1>4, <2>1, <2>3, <2>4, <2>5
  <2>6. CASE u # t
    BY <1>3, <1>4, <2>4, <2>6
  <2> QED BY <2>5, <2>6
<1>5. ASSUME NEW t \in Tables, OptimizeCommit(t) PROVE JobsWritten'
  <2>1. \A u \in Tables : job'[u] \in {job[u], NoJob}
    BY <1>5 DEF OptimizeCommit, TypeOK
  <2> QED BY <1>2, <1>3, <2>1 DEF JobsWritten
<1>6. CASE job' = job
  BY <1>3, <1>6 DEF JobsWritten
<1> QED BY <1>1, <1>4, <1>5, <1>6 DEF DataChanges, JobsWritten

\* A transaction's entry lands only while its part is in the store.
LEMMA LandsOnPart ==
    ASSUME TypeOK, JournalInv, LogInv, FileInv, NEW t \in Tables, Lands(t)
    PROVE  Own(t) \in files /\ files' = files
<1> USE DEF durable, process, maintenance, history
<1>1. t \in pending.batch.tabs /\ Behind /\ ~Shown(t) /\ PartsKept
  BY DEF Lands, MayLand, FileInv
<1>2. CASE CommitLanded(t) \/ CommitUnresolved(t)
  BY <1>1, <1>2 DEF PartsKept, Wanted, CommitLanded, CommitUnresolved
<1>3. ASSUME NEW p \in logPuts, LateCommit(p), p.table = t,
             p.version = Len(log[t]) + 1
      PROVE  Own(t) \in files /\ files' = files
  BY <1>1, <1>3 DEF PartsKept, Wanted, LateCommit
<1> QED BY <1>2, <1>3 DEF Lands

\* ReferencedFilesExist is preserved.
LEMMA ReferencedStep ==
    ASSUME TypeOK, JournalInv, LogInv, FileInv, [Next]_vars
    PROVE  ReferencedFilesExist'
<1> SUFFICES ASSUME NEW t \in Tables, NEW f \in Active(log'[t]) PROVE f \in files'
  BY DEF ReferencedFilesExist
<1>1. CASE f \in Active(log[t])
  <2>1. f \in files /\ f.table = t
    BY <1>1, NamedFiles DEF FileInv, ReferencedFilesExist
  <2> QED BY <1>1, <2>1, NamedStay
<1>2. ASSUME f \notin Active(log[t]) PROVE f \in files'
  <2>1. PICK e : Appended(t, e) /\ f \in e.add
    BY <1>2, LogGrows
  <2>2. CASE e.add = {Own(t)} /\ Lands(t)
    BY <2>1, <2>2, LandsOnPart
  <2>3. CASE e.add = job[t].out /\ OptimizeCommit(t)
    <3>1. f \in files /\ f.table = t /\ f.by # 0
      BY <2>1, <2>3 DEF FileInv, JobsWritten
    <3>2. job[t] # NoJob
      BY <2>3 DEF OptimizeCommit
    <3> QED BY <3>1, <3>2, NamedStay
  <2> QED BY <2>1, <2>2, <2>3 DEF Appended
<1> QED BY <1>1, <1>2

\* A step that is not a start's check wants only parts wanted before.
LEMMA WantedBefore ==
    ASSUME TypeOK, JournalInv, LogInv, [Next]_vars, ~CheckProgress, Behind,
           UNCHANGED <<auth, pending>>, NEW t \in Tables, Wanted(t)'
    PROVE  Wanted(t)
<1> USE DEF durable, process, maintenance, history
<1>1. DataChanges /\ ProcessChanges /\ PcChanges
  BY Changes
<1>2. pc \in {"down", "opening", "failing", "commit", "forward", "advance"}
  BY BehindPlaces
<1>3. CASE Committing' /\ step'[t] \in {"todo", "sent"}
  <2>1. Committing /\ pc' # "down"
    BY <1>1, <1>2, <1>3 DEF PcChanges, Committing, MarkCommitted
  <2>2. \/ step' = step
        \/ \E u \in Tables : \/ SendCommit(u) \/ CommitLanded(u)
                             \/ CommitUnresolved(u) \/ CommitRefused(u)
    BY <1>1, <2>1
    DEF ProcessChanges, ChangeStep, CheckProgress, MarkCommitted, Clear, Begin,
        SendDelete, DeleteDone, DeleteUnresolved, SendPart, PartPublished,
        PartRejected, PartUnresolved, Finish, Crash, Forget, Committing
  <2>3. ASSUME NEW u \in Tables, SendCommit(u) PROVE step[t] \in {"todo", "sent"}
    <3>1. step' = [step EXCEPT ![u] = "sent"] /\ step[u] = "todo"
      BY <2>3 DEF SendCommit
    <3> QED BY <1>3, <3>1 DEF TypeOK
  <2>4. ASSUME NEW u \in Tables,
               CommitLanded(u) \/ CommitUnresolved(u) \/ CommitRefused(u)
        PROVE  step[t] \in {"todo", "sent"}
    <3>1. \/ step' = step \/ step' = [step EXCEPT ![u] = "done"]
          \/ step' = [step EXCEPT ![u] = "failed"]
      BY <2>4 DEF CommitLanded, CommitUnresolved, CommitRefused
    <3>2. step'[t] \in {step[t], "done", "failed"}
      BY <3>1 DEF TypeOK
    <3> QED BY <1>3, <3>2
  <2> QED BY <1>3, <2>1, <2>2, <2>3, <2>4 DEF Wanted
<1>4. ASSUME NEW p \in logPuts', p.table = t, p.version = Len(log'[t]) + 1
      PROVE  Wanted(t)
  <2>1. ASSUME p \in logPuts PROVE Wanted(t)
    <3>1. /\ p.version \in Nat /\ p.version <= Len(log[t]) + 1
      BY <1>4, <2>1 DEF LogInv, PutsCurrent, TypeOK, LogPutSet
    <3>2. /\ Len(log[t]) \in Nat /\ Len(log'[t]) \in Nat
          /\ Len(log[t]) <= Len(log'[t])
      BY LogKept
    <3>3. p.version = Len(log[t]) + 1
      BY <1>4, <3>1, <3>2, SMT
    <3> QED BY <1>4, <2>1, <3>3 DEF Wanted
  <2>2. ASSUME p \notin logPuts PROVE Committing /\ step[t] = "sent"
    <3>1. CASE Crash
      <4>1. p \in LiveLogPuts
        BY <2>2, <3>1 DEF Crash
      <4>2. PICK u \in IF Committing THEN With("sent") ELSE {} :
              p = [table |-> u, version |-> at[u],
                   entry |-> AppendEntry(pending.batch, u)]
        BY <4>1 DEF LiveLogPuts
      <4>3. p.table = u
        BY <4>2, SMT
      <4> QED BY <1>4, <4>2, <4>3 DEF With
    <3>2. ASSUME NEW u \in Tables, CommitUnresolved(u)
          PROVE  Committing /\ step[t] = "sent"
      <4>1. /\ Committing /\ step[u] = "sent"
            /\ p = [table |-> u, version |-> at[u],
                    entry |-> AppendEntry(pending.batch, u)]
        BY <2>2, <3>2 DEF CommitUnresolved
      <4>2. p.table = u
        BY <4>1, SMT
      <4> QED BY <1>4, <4>1, <4>2
    <3>3. ~\E q \in logPuts : LateCommit(q)
      BY <2>2 DEF LateCommit
    <3> QED BY <1>1, <2>2, <3>1, <3>2, <3>3 DEF DataChanges
  <2> QED BY <2>1, <2>2 DEF Wanted
<1>5. CASE ~FullVacuum
  BY <1>5 DEF Wanted
<1> QED BY <1>3, <1>4, <1>5 DEF Wanted

\* PartsKept is preserved.
LEMMA PartsKeptStep ==
    ASSUME TypeOK, JournalInv, LogInv, FileInv, [Next]_vars
    PROVE  PartsKept'
<1> USE DEF durable, process, maintenance, history
<1> SUFFICES ASSUME NEW t \in pending'.batch.tabs, Behind', ~Shown(t)', Wanted(t)'
             PROVE  Own(t)' \in files'
  BY DEF PartsKept
<1>1. CASE MarkCommitted
  <2>1. /\ PartsIn(pending.batch.tabs) \subseteq files
        /\ pending' = [pending EXCEPT !.phase = "Committed"] /\ files' = files
    BY <1>1 DEF MarkCommitted, Behind, JournalInv, ProcessKnows
  <2>2. pending'.batch = pending.batch
    BY <2>1, SMT DEF TypeOK, PendingSet
  <2> QED BY <2>1, <2>2 DEF Own, PartsIn
<1>2. CASE Behind /\ UNCHANGED <<auth, pending>>
  <2>1. t \in Tables /\ t \in pending.batch.tabs /\ Own(t)' = Own(t)
    BY <1>2, BehindFacts DEF Own
  <2>2. ~Shown(t)
    BY <1>2, <2>1, ShownStays
  <2>3. CASE CheckProgress /\ ~Wanted(t)
    <3>1. UNCHANGED <<files, log, logPuts>> /\ pc = "opening"
      BY <2>3 DEF CheckProgress
    <3>2. pc' = "forward" /\ step'[t] \in {"todo", "sent"}
      <4>1. pc' # "commit"
        BY <2>3, <3>1, Changes DEF PcChanges, MarkCommitted
      <4> QED BY <2>3, <3>1, <4>1 DEF Wanted, Committing
    <3>3. /\ PartsIn(pending.batch.tabs \ Holding) \subseteq files
          /\ step' = Queue(pending.batch.tabs \ Holding)
      BY <2>3, <3>2 DEF CheckProgress, Refuse, RecoverWriting, RecoverCommitted
    <3>4. t \in pending.batch.tabs \ Holding
      BY <2>1, <3>2, <3>3 DEF Queue
    <3> QED BY <2>1, <3>1, <3>3, <3>4 DEF PartsIn, Own
  <2>4. CASE Wanted(t)
    <3>1. Own(t) \in files
      BY <1>2, <2>1, <2>2, <2>4 DEF FileInv, PartsKept
    <3>2. CASE FullVacuumRun(t)
      BY <2>4, <3>2 DEF FullVacuumRun, Wanted, Committing
    <3> QED BY <1>2, <2>1, <2>2, <3>1, <3>2, OwnStays
  <2> QED BY <1>2, <2>1, <2>3, <2>4, WantedBefore
<1> QED BY <1>1, <1>2, BehindMoves

\* What the process has seen of t's log stays or becomes the whole log, unless
\* the process ends.
LEMMA SnapMoves ==
    ASSUME TypeOK, LogInv, [Next]_vars, pc' # "down", NEW t \in Tables
    PROVE  \/ snap'[t] = snap[t]
           \/ snap'[t] = Len(log'[t]) /\ pc = "opening" /\ OpenTable(t)
           \/ snap'[t] = Len(log'[t]) /\ Committing
<1> USE DEF durable, process, maintenance, history
<1>1. ProcessChanges /\ log \in [Tables -> Seq(EntrySet)] /\ Len(log[t]) \in Nat
  BY Changes, LogTypes DEF TypeOK
<1>2. ASSUME NEW u \in Tables, OpenTable(u)
      PROVE  \/ snap'[t] = snap[t]
             \/ snap'[t] = Len(log'[t]) /\ pc = "opening" /\ OpenTable(t)
  <2>1. snap' = snap \/ snap' = [snap EXCEPT ![u] = Len(log'[u])]
    BY <1>2 DEF OpenTable
  <2> QED BY <1>2, <2>1 DEF TypeOK, OpenTable
<1>3. ASSUME NEW u \in Tables, CommitLanded(u)
      PROVE  snap'[t] = snap[t] \/ (snap'[t] = Len(log'[t]) /\ Committing)
  <2>1. /\ snap' = [snap EXCEPT ![u] = at[u]] /\ at[u] = Len(log[u]) + 1
        /\ log'[u] = Append(log[u], AppendEntry(pending.batch, u)) /\ Committing
    BY <1>1, <1>3 DEF CommitLanded, Landed
  <2>2. Len(log'[u]) = Len(log[u]) + 1
    BY <2>1, LogTypes, SMT
  <2> QED BY <2>1, <2>2 DEF TypeOK
<1>4. ASSUME NEW u \in Tables, CommitRefused(u)
      PROVE  snap'[t] = snap[t] \/ (snap'[t] = Len(log'[t]) /\ Committing)
  <2>1. /\ snap' = snap \/ snap' = [snap EXCEPT ![u] = Len(log[u])]
        /\ log' = log /\ Committing
    BY <1>4 DEF CommitRefused
  <2> QED BY <2>1 DEF TypeOK
<1>5. CASE snap' = snap
  BY <1>5
<1> QED BY <1>1, <1>2, <1>3, <1>4, <1>5 DEF ProcessChanges, Finish, Crash, Forget

\* A Lite VACUUM during a start leaves the part of a table that the start
\* opened before the transaction showed: it was replaced only afterwards.
LEMMA FreshStays ==
    ASSUME TypeOK, JournalInv, LogInv, FileInv, NEW t \in pending.batch.tabs,
           OpenedWithout(t), ~ZeroRetention, pc = "opening"
    PROVE  \A u \in Tables : Own(t) \notin Expired(u)
<1>1. Behind /\ t \in Tables /\ snap[t] # 0 /\ snap[t] \in Nat
  BY BehindFacts DEF OpenedWithout, TypeOK
<1>2. Own(t).table = t /\ Own(t).rows = {pending.batch} /\ Own(t).by = 0
  BY SMT DEF Own, Part
<1>3. ASSUME NEW i \in Versions(log[t]), Own(t) \in log[t][i].rem
      PROVE  i \in snap[t] + 1 .. Len(log[t])
  <2>1. NamesOwn(log[t][i], t, installed \cup InCommit(t)) /\ RemovesAdded(log[t], i)
    BY <1>1 DEF FileInv, Logged
  <2>2. PICK j \in Versions(log[t]) : j < i /\ Own(t) \in log[t][j].add
    BY <1>3, <2>1 DEF RemovesAdded
  <2>3. NamesOwn(log[t][j], t, installed \cup InCommit(t))
    BY <1>1 DEF FileInv, Logged
  <2>4. log[t][j].txn = pending.batch.last
    <3> HIDE DEF Own
    <3>1. PICK b : Own(t).rows = {b} /\ log[t][j].txn = b.last
      BY <1>2, <2>2, <2>3 DEF NamesOwn
    <3>2. b = pending.batch
      BY <1>2, <3>1
    <3> QED BY <3>1, <3>2
  <2>5. j \notin 1..snap[t]
    BY <2>4 DEF OpenedWithout
  <2>6. i \in 1..Len(log[t]) /\ j \in 1..Len(log[t]) /\ Len(log[t]) \in Nat
    BY <1>1, LogTypes DEF Versions
  <2> QED BY <1>1, <2>2, <2>5, <2>6, SMT
<1>4. ASSUME NEW u \in Tables, Own(t) \in Expired(u) PROVE FALSE
  <2> HIDE DEF Own
  <2>1. Own(t) \in Tombstones(log[u])
    BY <1>4 DEF Expired
  <2>2. u = t
    BY <1>2, <2>1, NamedFiles DEF FileInv
  <2>3. PICK i \in Versions(log[t]) : Own(t) \in log[t][i].rem
    BY <2>1, <2>2 DEF Tombstones
  <2>4. Own(t) \in UNION {log[t][k].rem : k \in snap[t] + 1 .. Len(log[t])}
    <3>1. i \in snap[t] + 1 .. Len(log[t])
      BY <1>3, <2>3
    <3>2. log[t][i].rem \in {log[t][k].rem : k \in snap[t] + 1 .. Len(log[t])}
      BY <3>1
    <3> QED BY <2>3, <3>2
  <2> DEFINE fresh == UNION {log[t][k].rem : k \in snap[t] + 1 .. Len(log[t])}
  <2>5. Expired(t) = Tombstones(log[t]) \ fresh
    BY <1>1 DEF Expired
  <2> QED BY <1>4, <2>2, <2>4, <2>5
<1> QED BY <1>4

\* PartsKeptForStart is preserved.
LEMMA PartsKeptForStartStep ==
    ASSUME TypeOK, JournalInv, LogInv, FileInv, [Next]_vars
    PROVE  PartsKeptForStart'
<1> USE DEF durable, process, maintenance, history
<1> SUFFICES ASSUME ~FullVacuum, ~ZeroRetention, pc' = "opening",
                    NEW t \in pending'.batch.tabs, OpenedWithout(t)'
             PROVE  Own(t)' \in files'
  BY DEF PartsKeptForStart
<1>1. Behind' /\ snap'[t] # 0
      /\ \A i \in 1..snap'[t] : log'[t][i].txn # pending'.batch.last
  BY DEF OpenedWithout
<1>2. /\ PcChanges
      /\ MarkCommitted \/ (Behind /\ UNCHANGED <<auth, pending>>)
  BY <1>1, Changes, BehindMoves
<1>3. ~MarkCommitted
  BY DEF MarkCommitted, Refuse
<1>4. /\ Behind /\ UNCHANGED <<auth, pending>> /\ t \in Tables
      /\ t \in pending.batch.tabs /\ Own(t)' = Own(t)
  BY <1>2, <1>3, BehindFacts DEF Own
<1>5. pc = "opening"
  <2>1. CASE Acquire
    <3>1. pc = "down" /\ snap' = snap
      BY <2>1 DEF Acquire
    <3> QED BY <1>1, <1>4, <3>1 DEF FileInv, Opened
  <2> QED BY <1>2, <2>1 DEF PcChanges
<1>6. CASE snap'[t] = Len(log'[t])
  <2>1. ~Shown(t)'
    BY <1>1, <1>6 DEF Shown, Versions
  <2>2. PartsKept' /\ Wanted(t)'
    BY PartsKeptStep DEF Wanted
  <2> QED BY <1>1, <2>1, <2>2 DEF PartsKept
<1>7. CASE snap'[t] = snap[t]
  <2>1. \A i \in 1..snap[t] : log'[t][i] = log[t][i]
    <3>1. snap[t] <= Len(log[t]) /\ snap[t] \in Nat /\ Len(log[t]) \in Nat
      BY <1>4, LogTypes DEF LogInv, StepsCurrent, TypeOK
    <3>2. 1..snap[t] \subseteq Versions(log[t])
      BY <3>1, SMT DEF Versions
    <3> QED BY <1>4, <3>2, LogKept
  <2>2. OpenedWithout(t)
    BY <1>1, <1>4, <1>7, <2>1 DEF OpenedWithout
  <2>3. Own(t) \in files
    BY <1>4, <1>5, <2>2 DEF FileInv, PartsKeptForStart
  <2>4. \A u \in Tables : Own(t) \notin Expired(u)
    BY <1>4, <1>5, <2>2, FreshStays
  <2> HIDE DEF Own
  <2> QED BY <1>4, <2>3, <2>4, FilesMoves DEF FilesMove, FullVacuumRun, Behind
<1> QED BY <1>4, <1>5, <1>6, <1>7, SnapMoves DEF Committing

\* A table of the commit phase that may not be taken as done stays so.
LEMMA TolerantStep ==
    ASSUME TypeOK, TypeOK', JournalInv, LogInv, [Next]_vars, NEW t \in Tables,
           Committing, pc' = pc, snap'[t] # Len(log'[t]), Shown(t)
    PROVE  Tolerant(t) => Tolerant(t)'
<1> USE DEF durable, process, maintenance, history
<1>0. /\ step \in [Tables -> {"off", "todo", "sent", "done", "failed"}]
      /\ snap \in [Tables -> Nat]
  BY DEF TypeOK
<1>1. \/ step' = step
      \/ \E u \in Tables : \/ SendCommit(u) \/ CommitLanded(u)
                           \/ CommitUnresolved(u) \/ CommitRefused(u)
  BY Changes
  DEF ProcessChanges, ChangeStep, CheckProgress, MarkCommitted, Clear, Begin,
      SendDelete, DeleteDone, DeleteUnresolved, SendPart, PartPublished,
      PartRejected, PartUnresolved, Finish, Crash, Forget, Committing
<1>2. ASSUME NEW u \in Tables, SendCommit(u)
      PROVE  step'[t] = step[t] \/ (step'[t] = "sent" /\ step[t] = "todo")
  <2>1. step' = [step EXCEPT ![u] = "sent"] /\ step[u] = "todo"
    BY <1>2 DEF SendCommit
  <2> QED BY <1>0, <2>1
<1>3. ASSUME NEW u \in Tables, CommitLanded(u) PROVE step'[t] = step[t]
  <2>1. /\ step' = [step EXCEPT ![u] = "done"] /\ snap' = [snap EXCEPT ![u] = at[u]]
        /\ at[u] = Len(log[u]) + 1
        /\ log' = [log EXCEPT ![u] = Append(@, AppendEntry(pending.batch, u))]
    BY <1>3 DEF CommitLanded, Landed
  <2>2. log'[u] = Append(log[u], AppendEntry(pending.batch, u)) /\ snap'[u] = at[u]
    BY <2>1 DEF TypeOK
  <2>3. Len(log'[u]) = Len(log[u]) + 1
    BY <2>2, LogTypes, SMT
  <2>4. u # t
    BY <2>1, <2>2, <2>3
  <2>5. step' = [step EXCEPT ![u] = "done"]
    BY <2>1
  <2> QED BY <1>0, <2>4, <2>5
<1>4. ASSUME NEW u \in Tables, CommitUnresolved(u)
      PROVE  step'[t] = step[t] \/ step'[t] = "failed"
  <2>1. step' = [step EXCEPT ![u] = "failed"]
    BY <1>4 DEF CommitUnresolved
  <2> QED BY <1>0, <2>1
<1>5. ASSUME NEW u \in Tables, CommitRefused(u)
      PROVE  step'[t] = step[t] \/ step'[t] = "failed"
  <2>1. /\ \/ step' = step \/ step' = [step EXCEPT ![u] = "failed"]
           \/ /\ step' = [step EXCEPT ![u] = "done"]
              /\ snap' = [snap EXCEPT ![u] = Len(log[u])]
        /\ log' = log
    BY <1>5 DEF CommitRefused
  <2> QED BY <1>0, <2>1
<1>6. \/ step'[t] = step[t] \/ step'[t] = "failed"
      \/ step'[t] = "sent" /\ step[t] = "todo"
  BY <1>1, <1>2, <1>3, <1>4, <1>5
<1> QED BY <1>6 DEF Tolerant, Committing

\* A start's check keeps waiting for a table whose log got the transaction
\* after the table was opened.
LEMMA TolerantCheck ==
    ASSUME TypeOK, JournalInv, LogInv, NEW t \in Tables, CheckProgress, Behind,
           NEW i \in snap[t] + 1 .. Len(log[t]),
           log[t][i].txn = pending.batch.last, pc' # "failing"
    PROVE  Tolerant(t)'
<1>1. /\ pending.batch.last # 0 /\ pending.batch.last \in Nat
      /\ auth.ordinal < pending.batch.last /\ auth.ordinal \in Nat
      /\ pending.phase = "Committed" /\ pending # NoPending
  BY BehindFacts
<1>2. /\ snap[t] \in Nat /\ Len(log[t]) \in Nat /\ snap[t] <= Len(log[t])
  BY LogTypes DEF TypeOK, LogInv, StepsCurrent
<1>3. i \in Versions(log[t]) /\ i > snap[t] /\ snap[t] \in 0..Len(log[t])
  BY <1>2, SMT DEF Versions
<1>4. t \in pending.batch.tabs
  <2>1. \/ log[t][i].txn <= auth.ordinal \/ log[t][i].txn = 0
        \/ t \in pending.batch.tabs
    BY <1>3 DEF LogInv, TxnsOrdered
  <2>2. ~(log[t][i].txn <= auth.ordinal) /\ log[t][i].txn # 0
    BY <1>1, SMT
  <2> QED BY <2>1, <2>2
<1>5. t \notin Holding
  <2>1. ASSUME NEW k \in 1..snap[t], log[t][k].txn = pending.batch.last PROVE FALSE
    <3>1. k \in Versions(log[t]) /\ k < i
      BY <1>2, <1>3, SMT DEF Versions
    <3>2. log[t][k].txn < log[t][i].txn
      BY <1>1, <1>3, <2>1, <3>1 DEF LogInv, TxnsOrdered
    <3> QED BY <1>1, <2>1, <3>2, SMT
  <2>2. TxnAt(log[t], snap[t]) # pending.batch.last
    BY <1>3, <2>1, TxnAtOwn DEF LogInv
  <2> QED BY <2>2 DEF Holding
<1>6. pc' = "forward" /\ step' = Queue(pending.batch.tabs \ Holding)
  BY <1>1, <1>4, <1>5 DEF CheckProgress, Refuse, RecoverWriting, RecoverCommitted
<1>7. step'[t] = "todo"
  BY <1>4, <1>5, <1>6 DEF Queue
<1> QED BY <1>6, <1>7 DEF Tolerant

\* An entry lands beyond what a process has seen only where it is tolerated.
LEMMA TolerantLanding ==
    ASSUME TypeOK, JournalInv, LogInv, FileInv, NEW t \in Tables, Lands(t),
           pc' \notin {"down", "failing"}, snap'[t] # Len(log'[t])
    PROVE  Tolerant(t)' /\ UNCHANGED <<auth, pending>>
<1> USE DEF durable, process, maintenance, history
<1>1. t \in pending.batch.tabs /\ Behind /\ ~Shown(t)
  BY DEF Lands, MayLand
<1>2. pc \in {"down", "opening", "failing", "commit", "forward", "advance"}
  BY <1>1, BehindPlaces
<1>3. ~CommitLanded(t)
  <2> SUFFICES ASSUME CommitLanded(t) PROVE FALSE
    OBVIOUS
  <2>1. /\ snap' = [snap EXCEPT ![t] = at[t]] /\ at[t] = Len(log[t]) + 1
        /\ log' = [log EXCEPT ![t] = Append(@, AppendEntry(pending.batch, t))]
    BY DEF CommitLanded, Landed
  <2>2. log'[t] = Append(log[t], AppendEntry(pending.batch, t)) /\ snap'[t] = at[t]
    BY <2>1 DEF TypeOK
  <2>3. Len(log'[t]) = Len(log[t]) + 1
    BY <2>2, LogTypes, SMT
  <2> QED BY <2>1, <2>2, <2>3
<1>4. CASE CommitUnresolved(t)
  <2>1. /\ step' = [step EXCEPT ![t] = "failed"] /\ pc' = pc /\ Committing
        /\ UNCHANGED <<auth, pending>>
    BY <1>4 DEF CommitUnresolved
  <2> QED BY <2>1 DEF TypeOK, Tolerant, Committing
<1>5. ASSUME NEW p \in logPuts, LateCommit(p), p.table = t,
             p.version = Len(log[t]) + 1
      PROVE  Tolerant(t)' /\ UNCHANGED <<auth, pending>>
  <2>1. UNCHANGED <<auth, pending, pc, step>>
    BY <1>5 DEF LateCommit
  <2>2. pc # "advance"
    BY <1>1 DEF LogInv, StepsCurrent
  <2>3. pc = "commit" => step[t] = "failed"
    BY <1>5 DEF FileInv, SnapsCurrent
  <2>4. pc = "forward" => step[t] \in {"todo", "sent", "failed"}
    <3>1. pc = "forward" => StepCurrent(t)
      BY DEF LogInv, StepsCurrent, Committing
    <3> QED BY <1>1, <3>1 DEF StepCurrent, TypeOK
  <2> QED BY <1>2, <2>1, <2>2, <2>3, <2>4 DEF Tolerant
<1> QED BY <1>3, <1>4, <1>5 DEF Lands

\* SnapsCurrent is preserved.
LEMMA SnapsCurrentStep ==
    ASSUME TypeOK, TypeOK', JournalInv, LogInv, FileInv, [Next]_vars
    PROVE  SnapsCurrent'
<1> USE DEF durable, process, maintenance, history
<1>1. DataChanges /\ ProcessChanges /\ PcChanges /\ SnapsCurrent
  BY Changes DEF FileInv
<1>2. ASSUME NEW t \in Tables, NEW i \in snap'[t] + 1 .. Len(log'[t]),
             snap'[t] # 0, log'[t][i].txn # 0, pc' # "failing"
      PROVE  Behind' /\ log'[t][i].txn = pending'.batch.last /\ Tolerant(t)'
  <2>1. pc' # "down" /\ pc # "failing"
    BY <1>1, <1>2, OpenedStep DEF Opened, PcChanges, Finish, Crash, Forget
  <2>2. /\ Len(log[t]) \in Nat /\ Len(log'[t]) \in Nat /\ snap[t] \in Nat
        /\ snap'[t] \in Nat
    BY LogKept DEF TypeOK
  <2>3. snap'[t] # Len(log'[t])
    BY <1>2, <2>2, SMT
  <2>4. snap'[t] = snap[t]
    BY <2>1, <2>3, SnapMoves
  <2>5. CASE i \in Versions(log[t])
    <3>1. log'[t][i] = log[t][i] /\ i \in snap[t] + 1 .. Len(log[t])
      <4>1. log'[t][i] = log[t][i]
        BY <2>5, LogKept
      <4>2. i \in snap[t] + 1 .. Len(log[t])
        BY <1>2, <2>2, <2>4, <2>5, SMT DEF Versions
      <4> QED BY <4>1, <4>2
    <3>2. Behind /\ log[t][i].txn = pending.batch.last /\ Tolerant(t)
      BY <1>1, <1>2, <2>1, <2>4, <3>1 DEF SnapsCurrent
    <3>3. UNCHANGED <<auth, pending>>
      BY <3>2, BehindMoves DEF Advance, Tolerant
    <3>4. Behind' /\ log'[t][i].txn = pending'.batch.last
      BY <3>1, <3>2, <3>3 DEF Behind, Id
    <3>5. CASE pc = "opening"
      <4>1. pc' = "opening" \/ CheckProgress
        BY <1>1, <1>2, <2>1, <3>5
        DEF PcChanges, TypeOK, Begin, RollbackDone, ReconcileMirror, MarkCommitted
      <4>2. CASE pc' = "opening"
        BY <3>4, <4>2 DEF Tolerant
      <4> QED BY <1>2, <3>1, <3>2, <3>4, <4>1, <4>2, TolerantCheck
    <3>6. CASE Committing
      <4>1. Shown(t)
        BY <2>5, <3>2 DEF Shown
      <4>2. ~CommitsDone
        <5>1. StepCurrent(t)
          BY <3>6 DEF LogInv, StepsCurrent
        <5> QED BY <3>2, <3>6, <5>1 DEF StepCurrent, Tolerant, CommitsDone, With, Committing
      <4>3. pc' = pc
        BY <1>1, <1>2, <2>1, <3>6, <4>2 DEF PcChanges, Committing
      <4> QED BY <2>3, <3>2, <3>4, <3>6, <4>1, <4>3, TolerantStep
    <3> QED BY <3>2, <3>5, <3>6 DEF Tolerant, Committing
  <2>6. CASE i \notin Versions(log[t])
    <3>1. log'[t] # log[t] /\ i \in Nat \ {0}
      BY <1>2, <2>2, <2>6, SMT DEF Versions
    <3>2. PICK e : Extends(log'[t], log[t], e) /\ Appended(t, e)
      BY <3>1, LogGrows
    <3>3. log'[t][i] = e
      BY <1>2, <2>2, <2>6, <3>1, <3>2, SMTT(30) DEF Extends, Versions
    <3>4. e.txn = pending.batch.last /\ Lands(t)
      BY <1>2, <3>2, <3>3 DEF Appended
    <3>5. Tolerant(t)' /\ UNCHANGED <<auth, pending>>
      BY <1>2, <2>1, <2>3, <3>4, TolerantLanding
    <3> QED BY <3>3, <3>4, <3>5 DEF Lands, MayLand, Behind, Id
  <2> QED BY <2>5, <2>6
<1>3. ASSUME pc' = "commit", NEW p \in logPuts',
             p.version = Len(log'[p.table]) + 1
      PROVE  step'[p.table] = "failed"
  <2>1. p.table \in Tables /\ p.version \in Nat
    BY DEF TypeOK, LogPutSet
  <2>2. CASE p \in logPuts
    <3>1. p.version <= Len(log[p.table]) + 1
      BY <2>2 DEF LogInv, PutsCurrent
    <3>2. /\ Len(log[p.table]) \in Nat /\ Len(log'[p.table]) \in Nat
          /\ Len(log[p.table]) <= Len(log'[p.table])
      BY <2>1, LogKept
    <3>3. p.version = Len(log[p.table]) + 1 /\ Len(log'[p.table]) = Len(log[p.table])
      BY <1>3, <2>1, <3>1, <3>2, SMTT(30)
    <3>4. MayLand(p.table)
      BY <2>2, <3>3 DEF LogInv, PutsCurrent
    <3>5. pc = "commit"
      <4>1. pc # "writing"
        BY <3>4, BehindPlaces DEF MayLand
      <4> QED BY <1>1, <1>3, <4>1 DEF PcChanges, MarkCommitted
    <3>6. step[p.table] = "failed"
      BY <1>1, <2>2, <3>3, <3>5 DEF SnapsCurrent
    <3>7. \/ step' = step
          \/ \E u \in Tables : \/ SendCommit(u) \/ CommitLanded(u)
                               \/ CommitUnresolved(u) \/ CommitRefused(u)
      BY <1>1, <1>3, <3>5
      DEF ProcessChanges, ChangeStep, CheckProgress, MarkCommitted, Clear, Begin,
          SendDelete, DeleteDone, DeleteUnresolved, SendPart, PartPublished,
          PartRejected, PartUnresolved, Finish, Crash, Forget
    <3>8. ASSUME NEW u \in Tables, \/ SendCommit(u) \/ CommitLanded(u)
                                   \/ CommitUnresolved(u) \/ CommitRefused(u)
          PROVE  step'[p.table] = "failed"
      <4>1. step[u] # "failed"
        BY <3>8 DEF SendCommit, CommitLanded, CommitUnresolved, CommitRefused
      <4>2. step' = step \/ \E x : step' = [step EXCEPT ![u] = x]
        BY <3>8 DEF SendCommit, CommitLanded, CommitUnresolved, CommitRefused
      <4>3. p.table # u /\ step \in [Tables -> {"off", "todo", "sent", "done", "failed"}]
        BY <3>6, <4>1 DEF TypeOK
      <4> QED BY <2>1, <3>6, <4>2, <4>3
    <3> QED BY <3>6, <3>7, <3>8
  <2>3. ASSUME p \notin logPuts PROVE step'[p.table] = "failed"
    <3>1. ~Crash /\ ~\E q \in logPuts : LateCommit(q)
      BY <1>3, <2>3 DEF Crash, Forget, LateCommit
    <3>2. PICK u \in Tables : CommitUnresolved(u)
      BY <1>1, <2>3, <3>1 DEF DataChanges
    <3>3. /\ step' = [step EXCEPT ![u] = "failed"]
          /\ p = [table |-> u, version |-> at[u],
                  entry |-> AppendEntry(pending.batch, u)]
      BY <2>3, <3>2 DEF CommitUnresolved
    <3>4. p.table = u
      BY <3>3, SMT
    <3> QED BY <3>3, <3>4 DEF TypeOK
  <2> QED BY <2>2, <2>3
<1> QED BY <1>2, <1>3 DEF SnapsCurrent

-----------------------------------------------------------------------------
(* What a start or flush refuses.                                          *)

\* No log is ahead of the journal at a start.
LEMMA LogsNotAhead ==
    ASSUME TypeOK, JournalInv, LogInv, auth # NoCheckpoint
    PROVE  ~LogAhead
<1> SUFFICES ASSUME NEW t \in Tables \ Holding,
                    TxnAt(log[t], snap[t]) > auth.ordinal
             PROVE  FALSE
  BY DEF LogAhead
<1>1. auth.ordinal \in Int /\ auth.ordinal >= 0
  BY SMTT(30) DEF TypeOK, Checkpoints, JournalInv, MirrorFollows
<1>2. /\ log[t] \in Seq(EntrySet) /\ snap[t] \in Nat /\ Len(log[t]) \in Nat
      /\ snap[t] <= Len(log[t])
  BY LogTypes DEF TypeOK, LogInv, StepsCurrent
<1>3. snap[t] \in 0..Len(log[t])
  BY <1>2, SMT
<1>4. TxnAt(log[t], snap[t]) # 0
  BY <1>1, SMT
<1>5. PICK k \in 1..snap[t] : log[t][k].txn # 0
                              /\ TxnAt(log[t], snap[t]) = log[t][k].txn
  BY <1>2, <1>3, <1>4, TxnAtLast
<1>6. k \in Versions(log[t])
  BY <1>2, SMT DEF Versions
<1>7. log[t][k].txn \in Nat /\ ~(log[t][k].txn <= auth.ordinal)
  <2>1. log[t][k].txn \in Nat
    BY <1>6, LogTypes
  <2> QED BY <1>1, <1>5, <2>1, SMT
<1>8. /\ Behind /\ t \in pending.batch.tabs
      /\ log[t][k].txn = pending.batch.last
  BY <1>5, <1>6, <1>7 DEF LogInv, TxnsOrdered
<1> QED BY <1>5, <1>8 DEF Holding

\* A start's check refuses only for a part that VACUUM deleted.
LEMMA CheckRefusals ==
    ASSUME TypeOK, JournalInv, LogInv, FileInv, CheckProgress
    PROVE  \/ refusal' = refusal
           \/ refusal' = "part_missing" /\ (FullVacuum \/ ZeroRetention)
<1>1. pc = "opening" /\ \A t \in Tables : snap[t] # 0
  BY DEF CheckProgress
<1>2. auth # NoCheckpoint
  <2>1. Blocks \in Tables
    BY DEF TablesAssumption
  <2> QED BY <1>1, <2>1 DEF JournalInv, ProcessKnows
<1>3. ~LogAhead
  BY <1>2, LogsNotAhead
<1>4. CASE pending = NoPending /\ refusal' = refusal
  BY <1>4
<1>5. CASE RecoverWriting
  <2>1. ASSUME NEW t \in pending.batch.tabs \ pending.receipts, Own(t) \in files
        PROVE  FALSE
    <3>1. /\ Own(t).by = 0 /\ Own(t).rows = {pending.batch}
          /\ \A u : Own(u).table = u
      BY SMT DEF Own, Part
    <3>2. pending.phase = "Writing" /\ pending.batch \notin installed
      BY <1>5, WritingFacts DEF RecoverWriting
    <3>3. \/ \E b \in installed : Own(t).rows = {b}
          \/ \E u \in pending.batch.tabs :
                /\ Own(t) = Own(u)
                /\ pending.phase = "Writing" => u \in pending.receipts
      BY <2>1, <3>1 DEF FileInv, FilesKnown
    <3>4. CASE \E b \in installed : Own(t).rows = {b}
      BY <3>1, <3>2, <3>4
    <3>5. ASSUME NEW u \in pending.receipts, Own(t) = Own(u) PROVE FALSE
      BY <3>1, <3>5
    <3> QED BY <3>2, <3>3, <3>4, <3>5
  <2> QED BY <1>5, <2>1 DEF RecoverWriting, Own
<1>6. CASE RecoverCommitted
  <2>1. CASE FullVacuum \/ ZeroRetention
    BY <1>6, <2>1 DEF RecoverCommitted, Refuse
  <2>2. CASE ~FullVacuum /\ ~ZeroRetention /\ Behind
    <3>1. ASSUME NEW t \in pending.batch.tabs \ Holding PROVE Own(t) \in files
      <4>1. t \in Tables /\ snap[t] \in 0..Len(log[t]) /\ snap[t] \in Nat
        <5>1. t \in Tables
          BY <2>2, BehindFacts
        <5>2. snap[t] \in Nat /\ snap[t] <= Len(log[t]) /\ Len(log[t]) \in Nat
          BY <5>1, LogTypes DEF TypeOK, LogInv, StepsCurrent
        <5> QED BY <5>1, <5>2, SMT
      <4>2. TxnAt(log[t], snap[t]) # pending.batch.last
        BY <2>2, <3>1 DEF Holding
      <4>3. OpenedWithout(t)
        BY <1>1, <2>2, <4>1, <4>2, TxnAtOwn DEF OpenedWithout, LogInv
      <4> QED BY <1>1, <2>2, <4>3 DEF FileInv, PartsKeptForStart
    <3>2. PartsIn(pending.batch.tabs \ Holding) \subseteq files
      BY <3>1 DEF PartsIn, Own
    <3> QED BY <1>6, <2>2, <3>2 DEF RecoverCommitted
  <2>3. CASE ~Behind
    BY <1>6, <2>3 DEF RecoverCommitted
  <2> QED BY <2>1, <2>2, <2>3
<1> QED BY <1>3, <1>4, <1>5, <1>6 DEF CheckProgress

\* A flush finds every planned name free and every published part.
LEMMA FlushRefusals ==
    ASSUME TypeOK, JournalInv, LogInv, FileInv,
           MarkCommitted \/ \E b \in Batches(auth) : Begin(b)
    PROVE  refusal' = refusal
<1>1. CASE MarkCommitted
  <2>1. pc = "writing" /\ ~err /\ With("done") = pending.batch.tabs
    BY <1>1 DEF MarkCommitted
  <2>2. \A t \in pending.batch.tabs : Own(t) \in files
    BY <2>1 DEF FileInv, PartsInHand, With
  <2>3. PartsIn(pending.batch.tabs) \subseteq files
    BY <2>2 DEF PartsIn, Own
  <2> QED BY <1>1, <2>3 DEF MarkCommitted
<1>2. ASSUME NEW b \in Batches(auth), Begin(b) PROVE refusal' = refusal
  <2>1. ASSUME NEW t \in b.tabs, Part(b, t) \in files PROVE FALSE
    <3>1. Part(b, t).by = 0 /\ Part(b, t).rows = {b}
      BY SMT DEF Part
    <3>2. pending = NoPending
      BY <1>2 DEF Begin, JournalInv, ProcessKnows
    <3>3. PICK c \in installed : Part(b, t).rows = {c}
      BY <2>1, <3>1, <3>2 DEF FileInv, FilesKnown
    <3>4. b \in installed
      BY <3>1, <3>3
    <3>5. auth \in Checkpoints /\ auth.ordinal \in Int
      BY SMT DEF TypeOK, Checkpoints
    <3>6. /\ b \in BatchSet /\ b.first = auth.ordinal + 1 /\ b.first <= b.last
      BY <3>5, BatchesType
    <3>7. b.last <= auth.ordinal
      BY <3>4 DEF JournalInv, InstalledBounded
    <3>8. b.last \in Int /\ b.first \in Int
      BY <3>6, SMT DEF BatchSet
    <3> QED BY <3>5, <3>6, <3>7, <3>8, SMTT(30)
  <2> QED BY <1>2, <2>1 DEF Begin
<1> QED BY <1>1, <1>2

\* A commit finds no other transaction in a log, and a mirror is repairable.
LEMMA OtherRefusals ==
    ASSUME TypeOK, JournalInv, LogInv, FileInv,
           \/ Initialize \/ ReconcileMirror
           \/ \E t \in Tables : OpenTable(t) \/ CommitRefused(t)
    PROVE  refusal' = refusal
<1>1. CASE Initialize
  <2>1. NoCheckpoint.ordinal <= 0
    BY SMT DEF NoCheckpoint
  <2> QED BY <1>1, <2>1 DEF Initialize, JournalInv, MirrorFollows
<1>2. CASE ReconcileMirror
  <2>1. auth.ordinal = 0 => auth.ordinal <= 0
    BY SMT
  <2> QED BY <1>2, <2>1 DEF ReconcileMirror, JournalInv, MirrorFollows
<1>3. ASSUME NEW t \in Tables, OpenTable(t) PROVE refusal' = refusal
  <2>1. auth.ordinal # 0 => auth.ordinal > 0
    BY <1>3, SMTT(30) DEF OpenTable, JournalInv, MirrorFollows, TypeOK, Checkpoints
  <2>2. auth.ordinal # 0 => log[t] # <<>>
    BY <2>1 DEF FileInv, Opened
  <2> QED BY <1>3, <2>2 DEF OpenTable
<1>4. ASSUME NEW t \in Tables, CommitRefused(t) PROVE refusal' = refusal
  <2>1. CASE SameApp(t)
    <3>1. PICK i \in snap[t] + 1 .. Len(log[t]) : log[t][i].txn # 0
      BY <2>1 DEF SameApp
    <3>2. Committing /\ step[t] = "sent" /\ snap[t] # 0
      BY <1>4 DEF CommitRefused, FileInv, Opened, Committing
    <3>3. Behind /\ log[t][i].txn = pending.batch.last /\ Tolerant(t)
      BY <3>1, <3>2 DEF FileInv, SnapsCurrent, Committing
    <3>4. pc = "forward"
      BY <3>2, <3>3 DEF Tolerant, Committing
    <3>5. i \in 1..Len(log[t]) /\ Len(log[t]) \in 0..Len(log[t])
      <4>1. snap[t] \in Nat /\ Len(log[t]) \in Nat
        BY LogTypes DEF TypeOK
      <4> QED BY <4>1, SMT
    <3>6. TxnAt(log[t], Len(log[t])) = pending.batch.last
      BY <3>3, <3>5, TxnAtOwn DEF LogInv
    <3> QED BY <1>4, <2>1, <3>4, <3>6 DEF CommitRefused
  <2>2. CASE ~SameApp(t)
    BY <1>4, <2>2 DEF CommitRefused
  <2> QED BY <2>1, <2>2
<1> QED BY <1>1, <1>2, <1>3, <1>4

\* Refusals is preserved.
LEMMA RefusalsStep ==
    ASSUME TypeOK, JournalInv, LogInv, FileInv, [Next]_vars
    PROVE  Refusals'
<1>1. \/ refusal' = refusal
      \/ refusal' = "part_missing" /\ (FullVacuum \/ ZeroRetention)
  BY Changes, CheckRefusals, FlushRefusals, OtherRefusals
  DEF ProcessChanges, ChangeRefusal
<1>2. Refusals
  BY DEF FileInv
<1> QED BY <1>1, <1>2 DEF Refusals, OnlyVacuumedPartsRefuse, NeverRefused

-----------------------------------------------------------------------------
(* The theorems.                                                           *)

\* Every step preserves the inductive invariant of the data files.
LEMMA FileStep ==
    ASSUME TypeOK, TypeOK', JournalInv, LogInv, FileInv, [Next]_vars
    PROVE  FileInv'
BY SettledStep, OpenedStep, FilesKnownStep, PartsInHandStep, LoggedStep,
   JobsWrittenStep, ReferencedStep, PartsKeptStep, PartsKeptForStartStep,
   SnapsCurrentStep, RefusalsStep
DEF FileInv

\* The inductive invariant of the data files holds in every state.
THEOREM DataFilesSafe == Spec => []FileInv
<1>1. Init => FileInv
  <2> SUFFICES ASSUME Init PROVE FileInv
    OBVIOUS
  <2> USE DEF Init
  <2>1. /\ NoPending.phase = "None" /\ NoPending.batch.tabs = {}
        /\ NoCheckpoint.ordinal = -1 /\ ~(-1 > 0) /\ NoJob.out = {}
    BY SMT DEF NoPending, NoBatch, NoCheckpoint, NoJob
  <2>2. \A t \in Tables : /\ log[t] = <<>> /\ Versions(log[t]) = {}
                          /\ Active(log[t]) = {} /\ snap[t] = 0
    BY SMT DEF Never, Versions, Active
  <2>3. ~Behind
    BY <2>1 DEF Behind
  <2>4. Settled /\ Opened /\ FilesKnown /\ PartsInHand
    BY <2>1, <2>2, <2>3 DEF Settled, Opened, FilesKnown, PartsInHand, Never
  <2>5. Logged /\ JobsWritten /\ ReferencedFilesExist
    BY <2>1, <2>2 DEF Logged, JobsWritten, ReferencedFilesExist
  <2>6. PartsKept /\ PartsKeptForStart /\ SnapsCurrent /\ Refusals
    BY <2>1, <2>2, <2>3
    DEF PartsKept, PartsKeptForStart, SnapsCurrent, Refusals,
        OnlyVacuumedPartsRefuse, NeverRefused
  <2> QED BY <2>4, <2>5, <2>6 DEF FileInv
<1>2. TypeOK /\ TypeOK' /\ JournalInv /\ LogInv /\ FileInv /\ [Next]_vars => FileInv'
  BY FileStep
<1> QED BY <1>1, <1>2, TypeCorrect, JournalSafe, LogSafe, PTL DEF Spec

\* In every state every file that a log references exists: a rollback, an
\* abandoned DELETE and both kinds of VACUUM leave what readers need.
THEOREM ReferencedFilesSafe == Spec => []ReferencedFilesExist
<1>1. FileInv => ReferencedFilesExist
  BY DEF FileInv
<1> QED BY <1>1, DataFilesSafe, PTL

\* Whatever the retention, only a missing part ends a start or a flush in an
\* error that a restart cannot clear.
THEOREM OnlyVacuumRefuses == Spec => []OnlyVacuumedPartsRefuse
<1>1. FileInv => OnlyVacuumedPartsRefuse
  BY DEF FileInv, Refusals
<1> QED BY <1>1, DataFilesSafe, PTL

\* Without a full VACUUM and with a retention that outlasts a start, no start
\* and no flush ever ends in an error that a restart cannot clear.
THEOREM StartsNeverRefused ==
    ASSUME ~FullVacuum, ~ZeroRetention
    PROVE  Spec => []NeverRefused
<1>1. FileInv => NeverRefused
  BY DEF FileInv, Refusals
<1> QED BY <1>1, DataFilesSafe, PTL
=============================================================================
