----------------------------- MODULE LogProofs ------------------------------
(***************************************************************************)
(* Proofs about IngestTransaction for every number of tables, events,      *)
(* faults and compactions.  TypeOK is inductive by itself; JournalInv is   *)
(* inductive relative to it and yields the properties of journal,          *)
(* authority and mirror.                                                   *)
(*                                                                         *)
(* Every step keeps LogInv, the inductive invariant of the logs: a log     *)
(* request that can still land is the first one of its transaction for its *)
(* table, since the `txn` of an earlier one would have been seen.  First   *)
(* facts about logs and the steps that touch neither them nor the requests *)
(* for them, then the commit phases and the journal's decisions, then the  *)
(* steps that append to a log: a commit, for the process or late, and      *)
(* maintenance.  Last, what follows for every number of tables, events,    *)
(* faults and compactions: each acknowledged batch is in each of its tables*)
(* once, `blocks` shows a batch last, the authority follows the tables, and*)
(* the protocol implements AtomicIngest: MarkCommitted is Decide, a landing*)
(* commit Show, Advance Acknowledge, and nothing else is visible.          *)
(***************************************************************************)
EXTENDS IngestTransaction, WellFoundedInduction, TLAPS

USE TablesAssumption, NumbersAssumption, Zenon

-----------------------------------------------------------------------------
(* Types, the journal, the authority and the mirror.                       *)

\* The constant records have their types.
LEMMA ConstantTypes ==
    /\ NoCheckpoint \in Checkpoints
    /\ Initial \in Checkpoints
    /\ NoBatch \in BatchSet
    /\ NoPending \in PendingSet
    /\ NoJob \in JobSet
<1>1. NoCheckpoint \in Checkpoints /\ Initial \in Checkpoints
  BY SMT DEF NoCheckpoint, Initial, NoId, Checkpoints
<1>2. NoBatch \in BatchSet
  BY SMT DEF NoBatch, BatchSet
<1>3. NoPending \in PendingSet
  BY <1>1, <1>2 DEF NoPending, PendingSet
<1>4. NoJob \in JobSet
  BY DEF NoJob, JobSet
<1> QED BY <1>1, <1>2, <1>3, <1>4

\* A pending transaction's target is a checkpoint.
LEMMA TargetType ==
    ASSUME NEW p, p.pred \in Checkpoints, p.batch \in BatchSet
    PROVE  Target(p) \in Checkpoints
BY SMT DEF Target, Id, Checkpoints, BatchSet

\* The prefixes a flush may take are batches.
LEMMA BatchesType ==
    ASSUME NEW c \in Checkpoints, NEW b \in Batches(c)
    PROVE  /\ b \in BatchSet
           /\ b.first = c.ordinal + 1 /\ b.first <= b.last
BY SMT DEF Batches, BatchSet, Checkpoints

\* A part of a batch is a file, and its commit an entry.
LEMMA PartType ==
    ASSUME NEW b \in BatchSet, NEW t \in Tables
    PROVE  Part(b, t) \in FileSet /\ AppendEntry(b, t) \in EntrySet
<1>1. Part(b, t) \in FileSet
  BY SMT DEF Part, FileSet
<1>2. AppendEntry(b, t) \in EntrySet
  BY <1>1 DEF AppendEntry, EntrySet, BatchSet
<1> QED BY <1>1, <1>2

\* The entry of a maintenance commit is an entry.
LEMMA MaintenanceType ==
    ASSUME NEW a \in SUBSET FileSet, NEW r \in SUBSET FileSet
    PROVE  MaintenanceEntry(a, r) \in EntrySet
BY SMT DEF MaintenanceEntry, EntrySet

\* The active files of a log are files.
LEMMA ActiveType ==
    ASSUME NEW l \in Seq(EntrySet)
    PROVE  Active(l) \subseteq FileSet
<1>1. \A i \in Versions(l) : l[i] \in EntrySet
  BY SMT DEF Versions
<1>2. \A i \in Versions(l) : l[i].add \subseteq FileSet
  BY <1>1 DEF EntrySet
<1> QED BY <1>2 DEF Active

\* The requests a process waits for have their types.
LEMMA LiveType ==
    ASSUME TypeOK
    PROVE  /\ LivePartOps \subseteq PartOpSet
           /\ LiveLogPuts \subseteq LogPutSet
<1>1. \A t \in Tables : /\ Part(pending.batch, t) \in FileSet
                        /\ AppendEntry(pending.batch, t) \in EntrySet
                        /\ at[t] \in Nat
  BY PartType DEF TypeOK, PendingSet
<1>2. With("sent") \subseteq Tables
  BY DEF With
<1> QED BY <1>1, <1>2, SMT DEF LivePartOps, LiveLogPuts, PartOpSet, LogPutSet

\* Appending an entry to one table's log keeps the logs' type.
LEMMA AppendType ==
    ASSUME NEW l \in [Tables -> Seq(EntrySet)], NEW t \in Tables,
           NEW e \in EntrySet
    PROVE  /\ [l EXCEPT ![t] = Append(@, e)] \in [Tables -> Seq(EntrySet)]
           /\ Len(l[t]) \in Nat
<1>1. l[t] \in Seq(EntrySet)
  OBVIOUS
<1>2. Append(l[t], e) \in Seq(EntrySet) /\ Len(l[t]) \in Nat
  BY <1>1, SMT
<1> QED BY <1>2

\* TypeOK is preserved by every step.
LEMMA TypeStep == TypeOK /\ [Next]_vars => TypeOK'
<1> SUFFICES ASSUME TypeOK, [Next]_vars PROVE TypeOK'
  OBVIOUS
<1> USE DEF durable, process, maintenance, history
<1>a. /\ pending.pred \in Checkpoints /\ pending.batch \in BatchSet
      /\ \A t \in Tables : /\ Part(pending.batch, t) \in FileSet
                           /\ AppendEntry(pending.batch, t) \in EntrySet
  BY PartType DEF TypeOK, PendingSet
<1>b. /\ log \in [Tables -> Seq(EntrySet)]
      /\ \A t \in Tables : Len(log[t]) \in Nat
  BY SMT DEF TypeOK
<1>1. CASE Acquire
  BY <1>1 DEF TypeOK, Acquire
<1>2. CASE Initialize
  BY <1>2, ConstantTypes DEF TypeOK, Initialize, Refuse
<1>3. ASSUME NEW t \in Tables, OpenTable(t) PROVE TypeOK'
  <2>1. MaintenanceEntry({}, {}) \in EntrySet
    BY MaintenanceType
  <2> <<MaintenanceEntry({}, {})>> \in Seq(EntrySet)
    BY <2>1, SMT
  <2> log' \in {log, [log EXCEPT ![t] = <<MaintenanceEntry({}, {})>>]}
    BY <1>3 DEF OpenTable
  <2>2. log' \in [Tables -> Seq(EntrySet)]
    BY DEF TypeOK
  <2>3. Len(log'[t]) \in Nat
    BY <2>2, SMT
  <2>4. snap' \in [Tables -> Nat]
    BY <1>3, <2>3, SMT DEF TypeOK, OpenTable
  <2> QED BY <1>3, <2>2, <2>4 DEF TypeOK, OpenTable, Refuse
<1>4. CASE CheckProgress
  BY <1>4 DEF TypeOK, CheckProgress, Refuse, RecoverWriting, RecoverCommitted,
                  Queue
<1>5. ASSUME NEW t \in Tables, SendDelete(t) PROVE TypeOK'
  BY <1>5 DEF TypeOK, SendDelete
<1>6. ASSUME NEW t \in Tables, DeleteDone(t) PROVE TypeOK'
  BY <1>6 DEF TypeOK, DeleteDone
<1>7. CASE RollbackDone
  BY <1>7 DEF TypeOK, RollbackDone
<1>8. ASSUME NEW r \in SUBSET Tables, RecordReceipts(r) PROVE TypeOK'
  BY <1>8 DEF TypeOK, RecordReceipts, PendingSet
<1>9. ASSUME NEW t \in Tables, SendPart(t) PROVE TypeOK'
  BY <1>9 DEF TypeOK, SendPart
<1>10. ASSUME NEW t \in Tables, PartPublished(t) PROVE TypeOK'
  <2>2. files' \subseteq FileSet
    BY <1>10, <1>a, SMT DEF TypeOK, PartPublished
  <2>3. /\ step' \in [Tables -> {"off", "todo", "sent", "done", "failed"}]
        /\ err' \in BOOLEAN /\ latch' \in BOOLEAN
    BY <1>10 DEF TypeOK, PartPublished
  <2> QED BY <1>10, <2>2, <2>3 DEF TypeOK, PartPublished
<1>11. CASE MarkCommitted
  <2>1. pending' \in PendingSet
    <3>1. pending' \in {pending, [pending EXCEPT !.phase = "Committed"]}
      BY <1>11 DEF MarkCommitted
    <3> QED BY <3>1 DEF TypeOK, PendingSet
  <2>2. step' \in [Tables -> {"off", "todo", "sent", "done", "failed"}]
    BY <1>11 DEF TypeOK, MarkCommitted, Queue
  <2> QED BY <1>11, <2>1, <2>2 DEF TypeOK, MarkCommitted, Refuse
<1>12. ASSUME NEW t \in Tables, SendCommit(t) PROVE TypeOK'
  BY <1>12, SMT DEF TypeOK, SendCommit
<1>13. ASSUME NEW t \in Tables, CommitLanded(t) PROVE TypeOK'
  BY <1>13, <1>a, <1>b, AppendType, SMT DEF TypeOK, CommitLanded, Landed
<1>14. ASSUME NEW t \in Tables, CommitRefused(t) PROVE TypeOK'
  <2>2. snap' \in [Tables -> Nat] /\ at' \in [Tables -> Nat]
    <3>1. /\ snap' = snap \/ snap' = [snap EXCEPT ![t] = Len(log[t])]
          /\ at' = at \/ at' = [at EXCEPT ![t] = Len(log[t]) + 1]
      BY <1>14 DEF CommitRefused
    <3>2. /\ [snap EXCEPT ![t] = Len(log[t])] \in [Tables -> Nat]
          /\ [at EXCEPT ![t] = Len(log[t]) + 1] \in [Tables -> Nat]
      BY <1>b, SMT DEF TypeOK
    <3> QED BY <3>1, <3>2 DEF TypeOK
  <2>3. /\ step' \in [Tables -> {"off", "todo", "sent", "done", "failed"}]
        /\ err' \in BOOLEAN
    BY <1>14 DEF TypeOK, CommitRefused
  <2>4. refusal' \in {refusal, "concurrent_transaction"}
    BY <1>14 DEF CommitRefused
  <2> QED BY <1>14, <2>2, <2>3, <2>4, SMTT(30) DEF TypeOK, CommitRefused
<1>15. CASE CommitsDone
  BY <1>15 DEF TypeOK, CommitsDone
<1>16. CASE Advance
  BY <1>16, <1>a, TargetType DEF TypeOK, Advance
<1>17. CASE ReconcileMirror
  BY <1>17 DEF TypeOK, ReconcileMirror, Refuse
<1>18. CASE Clear
  BY <1>18, ConstantTypes DEF TypeOK, Clear, Off, Never
<1>19. CASE Drained
  BY <1>19 DEF TypeOK, Drained
<1>20. ASSUME NEW b \in Batches(auth), Begin(b) PROVE TypeOK'
  <2>1. b \in BatchSet
    BY BatchesType DEF TypeOK
  <2>2. pending' \in PendingSet
    BY <1>20, <2>1, SMT DEF TypeOK, Begin, PendingSet
  <2>3. step' \in [Tables -> {"off", "todo", "sent", "done", "failed"}]
    BY <1>20 DEF TypeOK, Begin, Queue
  <2> QED BY <1>20, <2>2, <2>3 DEF TypeOK, Begin, Refuse
<1>21. ASSUME NEW stop \in Stops, CompleteRequest(stop) PROVE TypeOK'
  <2>1. auth' \in Checkpoints
    BY <1>21 DEF TypeOK, CompleteRequest, Checkpoints, Id
  <2> QED BY <1>21, <2>1 DEF TypeOK, CompleteRequest
<1>22. CASE Finish
  BY <1>22 DEF TypeOK, Finish, Forget, Off, Never
<1>23. ASSUME NEW t \in Tables, DeleteUnresolved(t) PROVE TypeOK'
  BY <1>23, LiveType, SMT DEF TypeOK, DeleteUnresolved, Fault
<1>24. ASSUME NEW t \in Tables, PartRejected(t) PROVE TypeOK'
  BY <1>24, SMT DEF TypeOK, PartRejected, Fault
<1>25. ASSUME NEW t \in Tables, PartUnresolved(t) PROVE TypeOK'
  BY <1>25, <1>a, SMT DEF TypeOK, PartUnresolved, Fault, PartOpSet
<1>26. ASSUME NEW t \in Tables, CommitUnresolved(t) PROVE TypeOK'
  <2>2. log' \in [Tables -> Seq(EntrySet)]
    <3>1. \/ log' = log
          \/ log' = [log EXCEPT ![t] =
                        Append(@, AppendEntry(pending.batch, t))]
      BY <1>26 DEF CommitUnresolved, Landed
    <3>2. [log EXCEPT ![t] = Append(@, AppendEntry(pending.batch, t))]
            \in [Tables -> Seq(EntrySet)]
      BY <1>a, <1>b, AppendType
    <3> QED BY <1>b, <3>1, <3>2
  <2>3. logPuts' \subseteq LogPutSet
    BY <1>26, <1>a, SMT DEF TypeOK, CommitUnresolved, LogPutSet
  <2>4. step' \in [Tables -> {"off", "todo", "sent", "done", "failed"}]
    BY <1>26 DEF TypeOK, CommitUnresolved
  <2> QED
    BY <1>26, <2>2, <2>3, <2>4, SMTT(30) DEF TypeOK, CommitUnresolved, Fault
<1>27. CASE Fail
  <2>1. pc' \in {pc, "failing"} /\ err' \in BOOLEAN
    BY <1>27 DEF TypeOK, Fail
  <2> QED BY <1>27, <2>1, SMT DEF TypeOK, Fail, Fault
<1>28. CASE Crash
  <2>1. partOps' \subseteq PartOpSet
    BY <1>28, LiveType DEF TypeOK, Crash
  <2>2. logPuts' \subseteq LogPutSet
    BY <1>28, LiveType DEF TypeOK, Crash
  <2>3. /\ pc' = "down" /\ err' = FALSE /\ latch' = FALSE
        /\ snap' \in [Tables -> Nat] /\ at' \in [Tables -> Nat]
        /\ step' \in [Tables -> {"off", "todo", "sent", "done", "failed"}]
    BY <1>28 DEF Crash, Forget, Off, Never
  <2>4. faults' \in 0..MaxFaults
    BY <1>28, SMT DEF TypeOK, Crash, Fault
  <2> QED BY <1>28, <2>1, <2>2, <2>3, <2>4 DEF TypeOK, Crash
<1>29. CASE OperatorRelease
  BY <1>29 DEF TypeOK, OperatorRelease
<1>30. ASSUME NEW o \in partOps, LateOp(o) PROVE TypeOK'
  BY <1>30, SMT DEF TypeOK, LateOp, PartOpSet
<1>31. ASSUME NEW p \in logPuts, LateCommit(p) PROVE TypeOK'
  <2>1. p.table \in Tables /\ p.entry \in EntrySet
    BY DEF TypeOK, LogPutSet
  <2>2. log' \in [Tables -> Seq(EntrySet)]
    <3>1. \/ log' = log
          \/ log' = [log EXCEPT ![p.table] = Append(@, p.entry)]
      BY <1>31 DEF LateCommit
    <3>2. [log EXCEPT ![p.table] = Append(@, p.entry)]
            \in [Tables -> Seq(EntrySet)]
      BY <1>b, <2>1, AppendType
    <3> QED BY <1>b, <3>1, <3>2
  <2> QED BY <1>31, <2>2, SMT DEF TypeOK, LateCommit
<1>32. ASSUME NEW t \in Tables, OptimizeWrite(t) PROVE TypeOK'
  <2>1. PICK src \in SUBSET Active(log[t]) :
          LET out == [table |-> t, rows |-> UNION {f.rows : f \in src},
                      by |-> made + 1]
          IN  /\ files' = files \cup {out}
              /\ job' = [job EXCEPT ![t] =
                          [base |-> Len(log[t]), src |-> src, out |-> {out}]]
    BY <1>32 DEF OptimizeWrite
  <2> DEFINE out == [table |-> t, rows |-> UNION {f.rows : f \in src},
                     by |-> made + 1]
  <2>2. src \subseteq FileSet /\ Len(log[t]) \in Nat
    BY <1>b, ActiveType
  <2>3. UNION {f.rows : f \in src} \subseteq BatchSet
    BY <2>2 DEF FileSet
  <2>4. made + 1 \in 0..MaxCompactions /\ made' = made + 1
    BY <1>32, SMTT(30) DEF OptimizeWrite, TypeOK
  <2>5. out \in FileSet
    BY <2>3, <2>4 DEF FileSet
  <2>6. files' \subseteq FileSet
    BY <2>1, <2>5 DEF TypeOK
  <2>7. job' \in [Tables -> JobSet]
    BY <2>1, <2>2, <2>5 DEF TypeOK, JobSet
  <2>8. UNCHANGED <<durable, log, process, partOps, logPuts, faults, history>>
    BY <1>32 DEF OptimizeWrite
  <2> HIDE DEF out
  <2> QED BY <2>4, <2>6, <2>7, <2>8, SMT DEF TypeOK
<1>33. ASSUME NEW t \in Tables, OptimizeCommit(t) PROVE TypeOK'
  <2>1. MaintenanceEntry(job[t].out, job[t].src) \in EntrySet
    BY MaintenanceType DEF TypeOK, JobSet
  <2>2. log' \in [Tables -> Seq(EntrySet)]
    <3>1. \/ log' = log
          \/ log' = [log EXCEPT ![t] =
                Append(@, MaintenanceEntry(job[t].out, job[t].src))]
      BY <1>33 DEF OptimizeCommit
    <3>2. [log EXCEPT ![t] =
                Append(@, MaintenanceEntry(job[t].out, job[t].src))]
            \in [Tables -> Seq(EntrySet)]
      BY <1>b, <2>1, AppendType
    <3> QED BY <1>b, <3>1, <3>2
  <2>3. job' \in [Tables -> JobSet]
    BY <1>33, ConstantTypes DEF TypeOK, OptimizeCommit
  <2>4. UNCHANGED <<durable, files, process, partOps, logPuts, made, faults,
                    history>>
    BY <1>33 DEF OptimizeCommit
  <2> QED BY <2>2, <2>3, <2>4, SMT DEF TypeOK
<1>34. ASSUME NEW t \in Tables, LiteVacuum(t) PROVE TypeOK'
  <2>1. MaintenanceEntry({}, {}) \in EntrySet
    BY MaintenanceType
  <2>2. log' \in [Tables -> Seq(EntrySet)]
    BY <1>34, <1>b, <2>1, AppendType DEF LiteVacuum
  <2> QED BY <1>34, <2>2, SMT DEF TypeOK, LiteVacuum
<1>35. ASSUME NEW t \in Tables, FullVacuumRun(t) PROVE TypeOK'
  BY <1>35 DEF TypeOK, FullVacuumRun
<1>36. CASE UNCHANGED vars
  BY <1>36, SMT DEF TypeOK, vars
<1> QED
  BY <1>1, <1>2, <1>3, <1>4, <1>5, <1>6, <1>7, <1>8, <1>9, <1>10, <1>11,
     <1>12, <1>13, <1>14, <1>15, <1>16, <1>17, <1>18, <1>19, <1>20, <1>21,
     <1>22, <1>23, <1>24, <1>25, <1>26, <1>27, <1>28, <1>29, <1>30, <1>31,
     <1>32, <1>33, <1>34, <1>35, <1>36
  DEF Next, ProcessStep, FaultStep, StoreStep, MaintenanceStep

-----------------------------------------------------------------------------
(* Journal, authority and mirror.                                          *)

\* Every state has the types of TypeOK: the range of each variable, for all
\* steps of process, store and maintenance.
THEOREM TypeCorrect == Spec => []TypeOK
<1>1. Init => TypeOK
  <2> SUFFICES ASSUME Init PROVE TypeOK
    OBVIOUS
  <2>1. log \in [Tables -> Seq(EntrySet)]
    BY SMT DEF Init
  <2>2. /\ snap \in [Tables -> Nat] /\ at \in [Tables -> Nat]
        /\ step \in [Tables -> {"off", "todo", "sent", "done", "failed"}]
    BY DEF Init, Off, Never
  <2>3. job \in [Tables -> JobSet]
    BY ConstantTypes DEF Init
  <2>4. made \in 0..MaxCompactions /\ faults \in 0..MaxFaults
    BY SMT DEF Init
  <2> QED BY <2>1, <2>2, <2>3, <2>4, ConstantTypes DEF Init, TypeOK
<1> QED BY <1>1, TypeStep, PTL DEF Spec

\* A step that leaves journal, authority and mirror alone only has to keep
\* what the process knows of them.
LEMMA Steady ==
    ASSUME JournalInv, UNCHANGED <<auth, pending, mirror, installed>>,
           ProcessKnows'
    PROVE  JournalInv'
BY DEF JournalInv, JournalContinues, MirrorFollows, InstalledBounded,
       OrdinalsTiled, Repairable, Target, Id

\* A journalled transaction's target differs from its predecessor.
LEMMA TargetDiffers ==
    ASSUME TypeOK, JournalContinues, pending # NoPending
    PROVE  Id(Target(pending)) # Id(pending.pred)
BY SMT DEF TypeOK, PendingSet, JournalContinues, Target, Id, Checkpoints, BatchSet

\* The steps that touch neither journal, authority nor mirror.
LEMMA SteadyStep ==
    ASSUME TypeOK, JournalInv,
           \/ Acquire \/ RollbackDone \/ CommitsDone \/ Drained \/ Finish
           \/ Fail \/ Crash \/ OperatorRelease \/ StoreStep \/ MaintenanceStep
           \/ \E t \in Tables :
                \/ OpenTable(t) \/ SendDelete(t) \/ DeleteDone(t)
                \/ DeleteUnresolved(t) \/ SendPart(t) \/ PartPublished(t)
                \/ PartRejected(t) \/ PartUnresolved(t) \/ SendCommit(t)
                \/ CommitLanded(t) \/ CommitUnresolved(t) \/ CommitRefused(t)
    PROVE  JournalInv'
<1> USE DEF durable, process, maintenance, history
<1> ProcessKnows
  BY DEF JournalInv
<1> SUFFICES /\ UNCHANGED <<auth, pending, mirror, installed>>
             /\ ProcessKnows'
  BY Steady
<1>1. CASE Acquire
  BY <1>1 DEF Acquire, ProcessKnows, Target, Id
<1>2. ASSUME NEW t \in Tables, OpenTable(t)
      PROVE  /\ UNCHANGED <<auth, pending, mirror, installed>>
             /\ ProcessKnows'
  BY <1>2 DEF OpenTable, ProcessKnows, Target, Id, Refuse
<1>3. ASSUME NEW t \in Tables, SendDelete(t)
      PROVE  /\ UNCHANGED <<auth, pending, mirror, installed>>
             /\ ProcessKnows'
  BY <1>3 DEF SendDelete, ProcessKnows, Target, Id
<1>4. ASSUME NEW t \in Tables, DeleteDone(t)
      PROVE  /\ UNCHANGED <<auth, pending, mirror, installed>>
             /\ ProcessKnows'
  BY <1>4 DEF DeleteDone, ProcessKnows, Target, Id
<1>5. CASE RollbackDone
  BY <1>5 DEF RollbackDone, ProcessKnows, Target, Id
<1>6. ASSUME NEW t \in Tables, SendPart(t)
      PROVE  /\ UNCHANGED <<auth, pending, mirror, installed>>
             /\ ProcessKnows'
  BY <1>6 DEF SendPart, ProcessKnows, Target, Id
<1>7. ASSUME NEW t \in Tables, PartPublished(t)
      PROVE  /\ UNCHANGED <<auth, pending, mirror, installed>>
             /\ ProcessKnows'
  BY <1>7 DEF PartPublished, ProcessKnows, Target, Id
<1>8. ASSUME NEW t \in Tables, SendCommit(t)
      PROVE  /\ UNCHANGED <<auth, pending, mirror, installed>>
             /\ ProcessKnows'
  BY <1>8 DEF SendCommit, ProcessKnows, Target, Id
<1>9. ASSUME NEW t \in Tables, CommitLanded(t)
      PROVE  /\ UNCHANGED <<auth, pending, mirror, installed>>
             /\ ProcessKnows'
  BY <1>9 DEF CommitLanded, ProcessKnows, Target, Id, Committing
<1>10. ASSUME NEW t \in Tables, CommitRefused(t)
      PROVE  /\ UNCHANGED <<auth, pending, mirror, installed>>
             /\ ProcessKnows'
  BY <1>10 DEF CommitRefused, ProcessKnows, Target, Id, Committing
<1>11. CASE CommitsDone
  BY <1>11 DEF CommitsDone, ProcessKnows, Target, Id, Committing
<1>12. CASE Drained
  BY <1>12 DEF Drained, ProcessKnows, Target, Id
<1>13. CASE Finish
  BY <1>13 DEF Finish, ProcessKnows, Target, Id, Forget, Never
<1>14. ASSUME NEW t \in Tables, DeleteUnresolved(t)
      PROVE  /\ UNCHANGED <<auth, pending, mirror, installed>>
             /\ ProcessKnows'
  BY <1>14 DEF DeleteUnresolved, ProcessKnows, Target, Id
<1>15. ASSUME NEW t \in Tables, PartRejected(t)
      PROVE  /\ UNCHANGED <<auth, pending, mirror, installed>>
             /\ ProcessKnows'
  BY <1>15 DEF PartRejected, ProcessKnows, Target, Id
<1>16. ASSUME NEW t \in Tables, PartUnresolved(t)
      PROVE  /\ UNCHANGED <<auth, pending, mirror, installed>>
             /\ ProcessKnows'
  BY <1>16 DEF PartUnresolved, ProcessKnows, Target, Id
<1>17. ASSUME NEW t \in Tables, CommitUnresolved(t)
      PROVE  /\ UNCHANGED <<auth, pending, mirror, installed>>
             /\ ProcessKnows'
  BY <1>17 DEF CommitUnresolved, ProcessKnows, Target, Id
<1>18. CASE Fail
  BY <1>18 DEF Fail, ProcessKnows, Target, Id
<1>19. CASE Crash
  BY <1>19 DEF Crash, ProcessKnows, Target, Id, Forget, Never
<1>20. CASE OperatorRelease
  BY <1>20 DEF OperatorRelease, ProcessKnows, Target, Id
<1>21. ASSUME NEW o \in partOps, LateOp(o)
      PROVE  /\ UNCHANGED <<auth, pending, mirror, installed>>
             /\ ProcessKnows'
  BY <1>21 DEF LateOp, ProcessKnows, Target, Id
<1>22. ASSUME NEW p \in logPuts, LateCommit(p)
      PROVE  /\ UNCHANGED <<auth, pending, mirror, installed>>
             /\ ProcessKnows'
  BY <1>22 DEF LateCommit, ProcessKnows, Target, Id
<1>23. ASSUME NEW t \in Tables, OptimizeWrite(t)
      PROVE  /\ UNCHANGED <<auth, pending, mirror, installed>>
             /\ ProcessKnows'
  BY <1>23 DEF OptimizeWrite, ProcessKnows, Target, Id
<1>24. ASSUME NEW t \in Tables, OptimizeCommit(t)
      PROVE  /\ UNCHANGED <<auth, pending, mirror, installed>>
             /\ ProcessKnows'
  BY <1>24 DEF OptimizeCommit, ProcessKnows, Target, Id
<1>25. ASSUME NEW t \in Tables, LiteVacuum(t)
      PROVE  /\ UNCHANGED <<auth, pending, mirror, installed>>
             /\ ProcessKnows'
  BY <1>25 DEF LiteVacuum, ProcessKnows, Target, Id
<1>26. ASSUME NEW t \in Tables, FullVacuumRun(t)
      PROVE  /\ UNCHANGED <<auth, pending, mirror, installed>>
             /\ ProcessKnows'
  BY <1>26 DEF FullVacuumRun, ProcessKnows, Target, Id
<1> QED
  BY <1>1, <1>2, <1>3, <1>4, <1>5, <1>6, <1>7, <1>8, <1>9, <1>10, <1>11,
     <1>12, <1>13, <1>14, <1>15, <1>16, <1>17, <1>18, <1>19, <1>20, <1>21,
     <1>22, <1>23, <1>24, <1>25, <1>26
  DEF StoreStep, MaintenanceStep

\* JournalInv is preserved by every step.
LEMMA JournalStep ==
    ASSUME TypeOK, JournalInv, [Next]_vars
    PROVE  JournalInv'
<1> USE DEF durable, process, maintenance, history
<1>a. /\ JournalContinues /\ ProcessKnows /\ MirrorFollows
      /\ InstalledBounded /\ OrdinalsTiled
  BY DEF JournalInv
<1>1. CASE Initialize
  BY <1>1, <1>a, SMT DEF Initialize, Refuse, JournalInv, JournalContinues,
     ProcessKnows, MirrorFollows, InstalledBounded, OrdinalsTiled, Repairable,
     Initial, NoCheckpoint
<1>2. CASE CheckProgress
  <2>1. UNCHANGED <<auth, pending, mirror, installed>>
    BY <1>2 DEF CheckProgress
  <2>2. auth # NoCheckpoint
    BY <1>2, <1>a DEF CheckProgress, ProcessKnows
  <2>3. ProcessKnows'
    BY <1>2, <1>a, <2>1, <2>2, TargetDiffers, SMT
    DEF CheckProgress, Refuse, RecoverWriting, RecoverCommitted, Behind,
        ProcessKnows, JournalContinues, Target, Id, NoPending
  <2> QED BY <2>1, <2>3, Steady
<1>3. ASSUME NEW r \in SUBSET Tables, RecordReceipts(r) PROVE JournalInv'
  BY <1>3, <1>a, SMT
  DEF RecordReceipts, TypeOK, PendingSet, JournalInv, JournalContinues,
      ProcessKnows, MirrorFollows, InstalledBounded, OrdinalsTiled, Repairable,
      Target, Id, NoPending
<1>4. CASE MarkCommitted
  <2>1. UNCHANGED <<auth, mirror, installed>> /\ snap' = snap
    BY <1>4 DEF MarkCommitted
  <2>2. MirrorFollows' /\ InstalledBounded' /\ OrdinalsTiled'
    BY <1>4, <1>a, <2>1
    DEF MarkCommitted, MirrorFollows, InstalledBounded, OrdinalsTiled,
        Repairable, Id, ProcessKnows
  <2>3. CASE pending' = pending /\ pc' = "failing"
    BY <1>a, <2>1, <2>3, Steady DEF ProcessKnows
  <2>4. CASE /\ pending' = [pending EXCEPT !.phase = "Committed"]
             /\ pc' = "commit"
    <3>1. /\ pending'.phase = "Committed" /\ pending'.pred = pending.pred
          /\ pending'.batch = pending.batch
          /\ pending'.receipts = pending.receipts
      BY <2>4 DEF TypeOK, PendingSet
    <3>2. pending # NoPending /\ auth = pending.pred /\ auth # NoCheckpoint
      BY <1>4, <1>a, SMT DEF MarkCommitted, ProcessKnows, NoPending
    <3>3. JournalContinues'
      BY <1>a, <2>1, <3>1, <3>2 DEF JournalContinues
    <3>4. ProcessKnows'
      BY <2>1, <2>4, <3>1, <3>2 DEF ProcessKnows
    <3> QED BY <2>2, <3>3, <3>4 DEF JournalInv
  <2> QED BY <1>4, <2>3, <2>4 DEF MarkCommitted, Refuse
<1>5. CASE Advance
  <2>1. /\ pending # NoPending /\ pending.phase = "Committed"
        /\ auth = pending.pred /\ auth # NoCheckpoint
    BY <1>5, <1>a, SMT DEF Advance, ProcessKnows, NoPending
  <2>2. /\ pending.batch.first = auth.ordinal + 1
        /\ pending.batch.first <= pending.batch.last
        /\ auth.ordinal >= 0
    BY <1>a, <2>1 DEF JournalContinues
  <2>3. /\ auth' = Target(pending) /\ pc' = "mirror"
        /\ installed' = installed \cup {pending.batch}
        /\ UNCHANGED <<pending, mirror, snap>>
    BY <1>5 DEF Advance
  <2>4. /\ auth.ordinal \in Int /\ pending.batch \in BatchSet
        /\ pending.batch.first \in Int /\ pending.batch.last \in Int
        /\ \A b \in installed : b.first \in Int /\ b.last \in Int
    BY SMTT(30) DEF TypeOK, PendingSet, Checkpoints, BatchSet
  <2>5. auth'.ordinal = pending.batch.last
    BY <2>3 DEF Target
  <2>6. auth' # NoCheckpoint
    BY <2>2, <2>4, <2>5, SMT DEF NoCheckpoint
  <2>7. JournalContinues'
    BY <1>a, <2>1, <2>3 DEF JournalContinues, Target, Id
  <2>8. ProcessKnows'
    BY <2>1, <2>3, <2>6 DEF ProcessKnows, Target, Id
  <2>9. MirrorFollows'
    <3>1. mirror = NoCheckpoint \/ mirror.ordinal < auth'.ordinal
      <4>1. mirror.ordinal \in Int
        BY SMT DEF TypeOK, Checkpoints
      <4> QED BY <1>a, <2>2, <2>4, <2>5, <4>1, SMT DEF MirrorFollows, Repairable
    <3> QED BY <2>2, <2>3, <2>4, <2>5, <2>6, <3>1, SMT DEF MirrorFollows, Repairable
  <2>10. InstalledBounded'
    BY <1>a, <2>2, <2>3, <2>4, <2>5, SMT DEF InstalledBounded
  <2>11. OrdinalsTiled'
    <3>1. ASSUME NEW o \in 1..MaxOrdinal
          PROVE  o <= auth'.ordinal <=>
                    \E b \in installed' : b.first <= o /\ o <= b.last
      BY <1>a, <2>2, <2>3, <2>4, <2>5, SMTT(30) DEF OrdinalsTiled
    <3>2. ASSUME NEW b \in installed', NEW c \in installed', b # c
          PROVE  b.last < c.first \/ c.last < b.first
      BY <1>a, <2>2, <2>3, <2>4, <3>2, SMT DEF OrdinalsTiled, InstalledBounded
    <3> QED BY <3>1, <3>2 DEF OrdinalsTiled
  <2> QED BY <2>7, <2>8, <2>9, <2>10, <2>11 DEF JournalInv
<1>6. CASE ReconcileMirror
  <2>1. UNCHANGED <<auth, pending, installed, snap>>
    BY <1>6 DEF ReconcileMirror
  <2>2. JournalContinues' /\ InstalledBounded' /\ OrdinalsTiled'
    BY <1>a, <2>1
    DEF JournalContinues, InstalledBounded, OrdinalsTiled, Target, Id
  <2>3. auth # NoCheckpoint /\ auth.ordinal >= 0
    BY <1>6, <1>a DEF ReconcileMirror, ProcessKnows, MirrorFollows
  <2>4. mirror' = mirror \/ (mirror' = auth /\ auth.ordinal # 0)
    BY <1>6 DEF ReconcileMirror
  <2>5. MirrorFollows'
    <3>1. auth.ordinal \in Int
      BY SMT DEF TypeOK, Checkpoints
    <3> QED BY <1>a, <2>1, <2>3, <2>4, <3>1, SMT DEF MirrorFollows, Repairable, Id
  <2>6. ProcessKnows'
    BY <1>6, <1>a, <2>1, <2>3
    DEF ReconcileMirror, Refuse, ProcessKnows, Target, Id
  <2> QED BY <2>2, <2>5, <2>6 DEF JournalInv
<1>7. CASE Clear
  <2>1. /\ UNCHANGED <<auth, mirror, installed, snap>>
        /\ pending' = NoPending
    BY <1>7 DEF Clear
  <2>2. /\ JournalContinues' /\ InstalledBounded' /\ OrdinalsTiled'
        /\ MirrorFollows'
    BY <1>a, <2>1 DEF JournalContinues, InstalledBounded, OrdinalsTiled,
       MirrorFollows, Repairable, Id
  <2>3. ProcessKnows'
    BY <1>7, <1>a, <2>1 DEF Clear, ProcessKnows, NoPending
  <2> QED BY <2>2, <2>3 DEF JournalInv
<1>8. ASSUME NEW b \in Batches(auth), Begin(b) PROVE JournalInv'
  <2>1. UNCHANGED <<auth, mirror, installed, snap>>
    BY <1>8 DEF Begin
  <2>2. /\ pending = NoPending /\ auth # NoCheckpoint /\ auth.ordinal >= 0
    BY <1>8, <1>a DEF Begin, ProcessKnows, MirrorFollows
  <2>3. InstalledBounded' /\ OrdinalsTiled' /\ MirrorFollows'
    BY <1>a, <2>1, <2>2
    DEF InstalledBounded, OrdinalsTiled, MirrorFollows, Repairable, Id
  <2>4. CASE pending' = pending /\ pc' = "failing"
    BY <1>a, <2>1, <2>4, Steady DEF ProcessKnows
  <2>5. CASE /\ pending' = [phase |-> "Writing", pred |-> auth, batch |-> b,
                            receipts |-> {}]
             /\ pc' = "writing"
    <3>1. b.first = auth.ordinal + 1 /\ b.first <= b.last
      BY BatchesType DEF TypeOK
    <3>2. JournalContinues'
      BY <2>1, <2>2, <2>5, <3>1 DEF JournalContinues
    <3>3. ProcessKnows'
      BY <2>1, <2>2, <2>5 DEF ProcessKnows
    <3> QED BY <2>3, <3>2, <3>3 DEF JournalInv
  <2> QED BY <1>8, <2>4, <2>5 DEF Begin, Refuse
<1>9. ASSUME NEW stop \in Stops, CompleteRequest(stop) PROVE JournalInv'
  <2>1. /\ UNCHANGED <<pending, mirror, installed, snap>> /\ pc' = "mirror"
        /\ auth' = [ordinal |-> auth.ordinal, completed |-> stop,
                    previous |-> Id(auth)]
        /\ auth.ordinal # 0 /\ stop > auth.completed
    BY <1>9 DEF CompleteRequest
  <2>2. /\ pending = NoPending /\ auth # NoCheckpoint /\ auth.ordinal >= 0
        /\ mirror = auth
    BY <1>9, <1>a, <2>1 DEF CompleteRequest, ProcessKnows, MirrorFollows
  <2>3. auth.ordinal \in Int
    BY SMT DEF TypeOK, Checkpoints
  <2>4. auth' # NoCheckpoint
    BY <2>1, <2>2, <2>3, SMT DEF NoCheckpoint
  <2>5. JournalContinues' /\ ProcessKnows'
    BY <2>1, <2>2, <2>4 DEF JournalContinues, ProcessKnows
  <2>6. MirrorFollows'
    BY <2>1, <2>2, <2>3, <2>4, SMT DEF MirrorFollows, Repairable, Id
  <2>7. InstalledBounded' /\ OrdinalsTiled'
    BY <1>a, <2>1 DEF InstalledBounded, OrdinalsTiled
  <2> QED BY <2>5, <2>6, <2>7 DEF JournalInv
<1>10. CASE UNCHANGED vars
  BY <1>10, <1>a, Steady DEF vars, ProcessKnows, Target, Id
<1> QED
  BY <1>1, <1>2, <1>3, <1>4, <1>5, <1>6, <1>7, <1>8, <1>9, <1>10, SteadyStep
  DEF Next, ProcessStep, FaultStep

\* JournalInv holds in every state: journal, authority, mirror and process
\* position agree, whatever crashed or was delayed between two writes.
THEOREM JournalSafe == Spec => []JournalInv
<1>1. Init => JournalInv
  BY SMT DEF Init, JournalInv, JournalContinues, ProcessKnows, MirrorFollows,
     InstalledBounded, OrdinalsTiled, Repairable, NoCheckpoint, Never
<1>2. TypeOK /\ JournalInv /\ [Next]_vars => JournalInv'
  BY JournalStep
<1> QED BY <1>1, <1>2, TypeCorrect, PTL DEF Spec

\* The acknowledged batches tile the ordinals: `Checkpoint::advance` neither
\* skips an accepted event nor acknowledges one twice.
THEOREM TilingSafe == Spec => []OrdinalsTiled
<1>1. JournalInv => OrdinalsTiled
  BY DEF JournalInv
<1> QED BY <1>1, JournalSafe, PTL

\* The cursor mirror can always be repaired from the authority: `reconcile`
\* never meets a mirror that leads it or that lacks two completions.
THEOREM MirrorSafe == Spec => []MirrorRepairable
<1>1. JournalInv => MirrorRepairable
  BY DEF JournalInv, MirrorFollows, Repairable, MirrorRepairable
<1> QED BY <1>1, JournalSafe, PTL

\* A Committed journal is left only through `clear`, with the authority at its
\* target: no start rolls it back and no flush replaces it.
THEOREM CommittedFinal == Spec => CommittedIsFinal
<1> DEFINE Final == pending.phase = "Committed" /\ pending' # pending
              => pending' = NoPending /\ Id(auth) = Id(Target(pending))
<1>1. TypeOK /\ JournalInv /\ [Next]_vars => [Final]_vars
  <2> SUFFICES ASSUME TypeOK, JournalInv, Next, pending.phase = "Committed",
                      pending' # pending
               PROVE  pending' = NoPending /\ Id(auth) = Id(Target(pending))
    OBVIOUS
  <2> USE DEF durable, process, maintenance, history
  <2>1. ProcessKnows
    BY DEF JournalInv
  <2>2. CASE Clear
    BY <2>1, <2>2 DEF Clear, ProcessKnows
  <2>3. ASSUME NEW r \in SUBSET Tables, RecordReceipts(r) PROVE FALSE
    BY <2>1, <2>3 DEF RecordReceipts, ProcessKnows
  <2>4. CASE MarkCommitted
    BY <2>1, <2>4 DEF MarkCommitted, ProcessKnows
  <2>5. ASSUME NEW b \in Batches(auth), Begin(b) PROVE FALSE
    BY <2>1, <2>5, SMT DEF Begin, ProcessKnows, NoPending
  <2>6. ASSUME ~Clear, ~MarkCommitted, ProcessStep PROVE
          \E r \in SUBSET Tables : RecordReceipts(r)
    BY <2>6 DEF ProcessStep, Initialize, OpenTable, CheckProgress, SendDelete,
       DeleteDone, RollbackDone, SendPart, PartPublished, SendCommit,
       CommitLanded, CommitRefused, CommitsDone, Advance, ReconcileMirror,
       Drained
  <2>7. ~FaultStep
    BY DEF FaultStep, DeleteUnresolved, PartRejected, PartUnresolved,
       CommitUnresolved, Fail, Crash
  <2>8. ~StoreStep /\ ~MaintenanceStep
    BY DEF StoreStep, LateOp, LateCommit, MaintenanceStep, OptimizeWrite,
       OptimizeCommit, LiteVacuum, FullVacuumRun
  <2>9. /\ ~Acquire /\ ~Finish /\ ~OperatorRelease
        /\ ~\E stop \in Stops : CompleteRequest(stop)
    BY DEF Acquire, Finish, OperatorRelease, CompleteRequest
  <2> QED BY <2>2, <2>3, <2>4, <2>5, <2>6, <2>7, <2>8, <2>9 DEF Next
<1> QED
  BY <1>1, TypeCorrect, JournalSafe, PTL DEF Spec, CommittedIsFinal

-----------------------------------------------------------------------------
(* Facts about logs.                                                       *)

\* A nonempty set of natural numbers up to n has a greatest element.
LEMMA GreatestExists ==
    ASSUME NEW n \in Nat, NEW S \in SUBSET (1..n), S # {}
    PROVE  \E x \in S : \A y \in S : y <= x
<1> DEFINE T == {n - i : i \in S}
<1>1. T \subseteq Nat /\ T # {}
  <2>1. \A i \in S : i \in 1..n /\ n - i \in Nat
    BY SMT
  <2>2. PICK i \in S : TRUE
    OBVIOUS
  <2>3. n - i \in T
    BY <2>2
  <2> QED BY <2>1, <2>3
<1>2. PICK m \in T : \A k \in T : <<k, m>> \notin OpToRel(<, Nat)
  <2> HIDE DEF T
  <2> QED BY <1>1, WFMin, NatLessThanWellFounded, ZenonT(30)
<1>3. \A k \in T : ~(k < m)
  <2>1. \A k \in T : k \in Nat /\ m \in Nat
    BY <1>1
  <2> HIDE DEF T
  <2> QED BY <1>2, <2>1 DEF OpToRel
<1>4. PICK x \in S : m = n - x
  OBVIOUS
<1>5. ASSUME NEW y \in S PROVE y <= x
  <2>1. n - y \in T
    OBVIOUS
  <2>2. ~(n - y < n - x)
    BY <1>3, <1>4, <2>1
  <2> QED BY <2>2, SMT
<1> QED BY <1>5

\* A version that could be the next one is not beyond it once the log has grown.
LEMMA PastEnd ==
    /\ \A n \in Nat : n <= n /\ n <= n + 1
    /\ \A v, n \in Nat : \A m : m = n + 1 /\ v <= n => v <= m /\ v # m
    /\ \A v, n \in Nat : \A m : m = n + 1 /\ v <= n + 1 => v <= m + 1 /\ v # m + 1
  BY SMT

\* What a table was opened at is within its log.
LEMMA Within == \A m, n \in Nat : m <= n => 1..m \subseteq 1..n
  BY SMT

\* A file that takes the place of others holds their rows.
LEMMA RowsReplaced ==
    ASSUME NEW F, NEW S \in SUBSET F, NEW out, out.rows = UNION {f.rows : f \in S}
    PROVE  UNION {f.rows : f \in (F \ S) \cup {out}} = UNION {f.rows : f \in F}
  BY SMT

\* The `txn` of a log prefix is that of its last entry of the stream.
LEMMA TxnAtLast ==
    ASSUME NEW l \in Seq(EntrySet), NEW n \in 0..Len(l)
    PROVE  \/ /\ TxnAt(l, n) = 0
              /\ \A i \in 1..n : l[i].txn = 0
           \/ \E k \in 1..n : /\ l[k].txn # 0
                              /\ TxnAt(l, n) = l[k].txn
                              /\ \A i \in 1..n : l[i].txn # 0 => i <= k
<1> DEFINE own == {i \in 1..n : l[i].txn # 0}
<1>1. CASE own = {}
  BY <1>1 DEF TxnAt
<1>2. CASE own # {}
  <2>1. n \in Nat /\ own \in SUBSET (1..n)
    BY SMT
  <2>2. \E x \in own : \A y \in own : y <= x
    <3> HIDE DEF own
    <3> QED BY <1>2, <2>1, GreatestExists
  <2> DEFINE k == CHOOSE x \in own : \A y \in own : y <= x
  <2>3. k \in own /\ \A y \in own : y <= k
    <3> HIDE DEF own
    <3> QED BY <2>2
  <2>4. TxnAt(l, n) = l[k].txn
    BY <1>2 DEF TxnAt
  <2> HIDE DEF k
  <2> QED BY <2>3, <2>4
<1> QED BY <1>1, <1>2

\* Log m is log l with entry e appended.
Extends(m, l, e) ==
    /\ Len(l) \in Nat
    /\ Len(m) = Len(l) + 1
    /\ m[Len(l) + 1] = e
    /\ \A i \in Versions(l) : m[i] = l[i]
    /\ Versions(m) = Versions(l) \cup {Len(l) + 1}
    /\ \A i \in Versions(l) : i < Len(l) + 1 /\ i \in Nat

\* An appended entry changes neither the earlier entries nor their number.
LEMMA AppendEntries ==
    ASSUME NEW l \in Seq(EntrySet), NEW e \in EntrySet
    PROVE  Extends(Append(l, e), l, e)
<1>1. /\ Len(l) \in Nat
      /\ Len(Append(l, e)) = Len(l) + 1
      /\ Append(l, e)[Len(l) + 1] = e
  BY SMT
<1>2. \A i \in Versions(l) : Append(l, e)[i] = l[i]
  BY SMT DEF Versions
<1>3. Versions(Append(l, e)) = Versions(l) \cup {Len(l) + 1}
  BY <1>1, SMT DEF Versions
<1>4. \A i \in Versions(l) : i < Len(l) + 1 /\ i \in Nat
  BY <1>1, SMT DEF Versions
<1> QED BY <1>1, <1>2, <1>3, <1>4 DEF Extends

\* Appending an entry removes its `rem` from the active files and adds `add`.
LEMMA ActiveAppend ==
    ASSUME NEW l \in Seq(EntrySet), NEW e \in EntrySet
    PROVE  Active(Append(l, e)) = (Active(l) \ e.rem) \cup e.add
<1> DEFINE m == Append(l, e)
           n == Len(l) + 1
<1>1. /\ Versions(m) = Versions(l) \cup {n} /\ m[n] = e
      /\ \A i \in Versions(l) : m[i] = l[i] /\ i < n /\ i \in Nat
      /\ n \in Nat
  <2>1. Extends(m, l, e)
    BY AppendEntries
  <2> HIDE DEF m
  <2> QED BY <2>1, SMT DEF Extends
<1> HIDE DEF m, n
<1>2. \A f : f \in Active(l) <=>
        \E i \in Versions(l) : /\ f \in l[i].add
                               /\ \A j \in Versions(l) : j > i => f \notin l[j].rem
  BY SMT DEF Active
<1>3. \A f : f \in Active(m) <=>
        \E i \in Versions(m) : /\ f \in m[i].add
                               /\ \A j \in Versions(m) : j > i => f \notin m[j].rem
  BY SMT DEF Active
<1>4. ASSUME NEW f, f \in Active(m) PROVE f \in (Active(l) \ e.rem) \cup e.add
  <2>1. PICK i \in Versions(m) : /\ f \in m[i].add
                                 /\ \A j \in Versions(m) : j > i => f \notin m[j].rem
    BY <1>3, <1>4
  <2>2. CASE i = n
    BY <1>1, <2>1, <2>2
  <2>3. CASE i \in Versions(l)
    <3>1. f \in l[i].add /\ f \notin e.rem
      BY <1>1, <2>1, <2>3
    <3>2. \A j \in Versions(l) : j > i => f \notin l[j].rem
      BY <1>1, <2>1
    <3> QED BY <1>2, <2>3, <3>1, <3>2
  <2> QED BY <1>1, <2>2, <2>3
<1>5. ASSUME NEW f, f \in (Active(l) \ e.rem) \cup e.add PROVE f \in Active(m)
  <2>1. CASE f \in e.add
    <3>1. \A j \in Versions(m) : ~(j > n)
      BY <1>1, SMT
    <3> QED BY <1>1, <1>3, <2>1, <3>1
  <2>2. CASE f \in Active(l) /\ f \notin e.rem
    <3>1. PICK i \in Versions(l) : /\ f \in l[i].add
                                   /\ \A j \in Versions(l) : j > i => f \notin l[j].rem
      BY <1>2, <2>2
    <3>2. \A j \in Versions(m) : j > i => f \notin m[j].rem
      BY <1>1, <2>2, <3>1
    <3> QED BY <1>1, <1>3, <3>1, <3>2
  <2> QED BY <1>5, <2>1, <2>2
<1> QED BY <1>4, <1>5 DEF m

-----------------------------------------------------------------------------
(* Facts about states.                                                     *)

\* The types of a log's entries.
LEMMA LogTypes ==
    ASSUME TypeOK, NEW t \in Tables
    PROVE  /\ log[t] \in Seq(EntrySet)
           /\ Len(log[t]) \in Nat
           /\ \A i \in Versions(log[t]) : log[t][i].txn \in Nat /\ i \in Nat
<1>1. log[t] \in Seq(EntrySet) /\ Len(log[t]) \in Nat
  BY SMT DEF TypeOK
<1>2. \A i \in Versions(log[t]) : log[t][i] \in EntrySet /\ i \in Nat
  BY <1>1, SMT DEF Versions
<1> QED BY <1>1, <1>2, SMT DEF EntrySet

\* A Committed transaction ahead of the authority continues it.
LEMMA BehindFacts ==
    ASSUME TypeOK, JournalInv, Behind
    PROVE  /\ auth = pending.pred /\ pending # NoPending
           /\ pending.phase = "Committed"
           /\ auth.ordinal \in Nat
           /\ pending.batch \in BatchSet /\ pending.batch.tabs \subseteq Tables
           /\ pending.batch.first \in Nat /\ pending.batch.last \in Nat
           /\ pending.batch.first = auth.ordinal + 1
           /\ pending.batch.first <= pending.batch.last
           /\ auth.ordinal < pending.batch.last
           /\ pending.batch.last # 0
           /\ pending.batch # NoBatch
           /\ auth # NoCheckpoint
           /\ pending.batch \notin installed
<1>1. pending # NoPending /\ pending.phase = "Committed"
  BY SMT DEF Behind, NoPending
<1>2. auth = pending.pred
  BY <1>1, TargetDiffers DEF JournalInv, JournalContinues, Behind
<1>3. /\ pending.batch \in BatchSet /\ pending.batch.tabs \subseteq Tables
      /\ pending.batch.first \in Nat /\ pending.batch.last \in Nat
      /\ auth.ordinal \in Int
  BY SMTT(30) DEF TypeOK, PendingSet, BatchSet, Checkpoints
<1>4. /\ pending.batch.first = auth.ordinal + 1 /\ auth.ordinal >= 0
      /\ pending.batch.first <= pending.batch.last
  BY <1>1, <1>2 DEF JournalInv, JournalContinues
<1>5. auth.ordinal < pending.batch.last /\ auth.ordinal \in Nat
      /\ pending.batch.last # 0
  BY <1>3, <1>4, SMT
<1>6. pending.batch # NoBatch /\ auth # NoCheckpoint
  BY <1>4, <1>5, SMT DEF NoBatch, NoCheckpoint
<1>7. pending.batch \notin installed
  BY <1>3, <1>5, SMT DEF JournalInv, InstalledBounded
<1> QED BY <1>1, <1>2, <1>3, <1>4, <1>5, <1>6, <1>7

\* The process commits, or advances the authority, only behind it.
LEMMA CommittingBehind ==
    ASSUME JournalInv, Committing \/ pc = "advance"
    PROVE  Behind
BY DEF JournalInv, ProcessKnows, Committing, Behind

\* Without a shown transaction, a log carries only acknowledged `txn`s.
LEMMA NotShown ==
    ASSUME TypeOK, TxnsOrdered, NEW t \in Tables, ~Shown(t),
           NEW i \in Versions(log[t])
    PROVE  log[t][i].txn = 0 \/ log[t][i].txn <= auth.ordinal
BY DEF TxnsOrdered, Shown

\* The `txn` of an opened table is the transaction's exactly if its snapshot
\* holds it.
LEMMA TxnAtOwn ==
    ASSUME TypeOK, JournalInv, TxnsOrdered, Behind, NEW t \in Tables,
           NEW n \in 0..Len(log[t])
    PROVE  TxnAt(log[t], n) = pending.batch.last
             <=> \E i \in 1..n : log[t][i].txn = pending.batch.last
<1> DEFINE last == pending.batch.last
<1>1. /\ last \in Nat /\ last # 0 /\ auth.ordinal \in Nat
      /\ auth.ordinal < last
  BY BehindFacts
<1>2. /\ log[t] \in Seq(EntrySet) /\ Len(log[t]) \in Nat
      /\ \A i \in 1..n : i \in Versions(log[t]) /\ log[t][i].txn \in Nat
  BY LogTypes, SMT DEF Versions
<1>3. \A i \in 1..n : log[t][i].txn <= last
  BY <1>1, <1>2, SMTT(30) DEF TxnsOrdered
<1>4. \A i, j \in 1..n : i < j /\ log[t][i].txn # 0 /\ log[t][j].txn # 0
                            => log[t][i].txn < log[t][j].txn
  BY <1>2 DEF TxnsOrdered
<1> HIDE DEF last
<1>5. CASE /\ TxnAt(log[t], n) = 0
           /\ \A i \in 1..n : log[t][i].txn = 0
  BY <1>1, <1>5 DEF last
<1>6. ASSUME NEW k \in 1..n, log[t][k].txn # 0,
             TxnAt(log[t], n) = log[t][k].txn,
             \A i \in 1..n : log[t][i].txn # 0 => i <= k
      PROVE  TxnAt(log[t], n) = last <=> \E i \in 1..n : log[t][i].txn = last
  <2>1. ASSUME NEW i \in 1..n, log[t][i].txn = last
        PROVE  log[t][k].txn = last
    <3>1. i <= k
      BY <1>1, <1>6, <2>1
    <3>2. CASE i = k
      BY <2>1, <3>2
    <3>3. CASE i < k
      <4>1. last < log[t][k].txn
        BY <1>1, <1>4, <1>6, <2>1, <3>3
      <4> QED BY <1>1, <1>2, <1>3, <4>1, SMT
    <3> QED BY <3>1, <3>2, <3>3, SMT
  <2> QED BY <1>6, <2>1
<1> QED BY <1>2, <1>5, <1>6, TxnAtLast DEF last

-----------------------------------------------------------------------------
(* Steps that leave the logs alone.                                        *)

\* What such a step keeps.
LEMMA SameLogs ==
    ASSUME TypeOK, TypeOK', LogInv, log' = log, job' = job,
           installed' = installed,
           Behind' <=> Behind, Behind => pending'.batch = pending.batch,
           auth.ordinal <= auth'.ordinal
    PROVE  /\ TxnsOrdered' /\ RowsKnown' /\ JobsCurrent'
           /\ \A t \in Tables : Shown(t)' <=> Shown(t)
           /\ \A t \in Tables : MayLand(t)' <=> MayLand(t)
           /\ logPuts' \subseteq logPuts => PutsCurrent'
           /\ Shown(Blocks)' => \A t \in pending'.batch.tabs : Shown(t)'
<1>1. \A t \in Tables : Shown(t)' <=> Shown(t)
  BY DEF Shown
<1>2. TxnsOrdered'
  <2>1. auth.ordinal \in Int /\ auth'.ordinal \in Int
    BY SMT DEF TypeOK, Checkpoints
  <2>2. \A t \in Tables : \A i \in Versions(log[t]) : log[t][i].txn \in Nat
    BY LogTypes
  <2> QED BY <2>1, <2>2, SMT DEF LogInv, TxnsOrdered
<1>3. RowsKnown'
  BY <1>1 DEF LogInv, RowsKnown, Acknowledged, InCommit
<1>4. JobsCurrent'
  BY DEF LogInv, JobsCurrent
<1>5. Behind => pending.batch.tabs \subseteq Tables
  BY DEF TypeOK, PendingSet, BatchSet
<1>6. \A t \in Tables : MayLand(t)' <=> MayLand(t)
  BY <1>1, <1>5 DEF MayLand
<1>7. logPuts' \subseteq logPuts => PutsCurrent'
  <2>1. \A p \in logPuts : p.table \in Tables
    BY DEF TypeOK, LogPutSet
  <2>2. \A t \in Tables : MayLand(t) => Behind
    BY DEF MayLand
  <2> QED BY <1>6, <2>1, <2>2 DEF LogInv, PutsCurrent
<1>8. Shown(Blocks)' => \A t \in pending'.batch.tabs : Shown(t)'
  BY <1>1, <1>5 DEF LogInv, StepsCurrent, Shown
<1> QED BY <1>1, <1>2, <1>3, <1>4, <1>6, <1>7, <1>8

\* A process that is not committing knows of the logs only what it opened.
LEMMA NotCommitting ==
    ASSUME pc' \notin {"commit", "forward", "advance"},
           \A t \in Tables : snap'[t] <= Len(log'[t]),
           Shown(Blocks)' => \A t \in pending'.batch.tabs : Shown(t)'
    PROVE  StepsCurrent'
BY DEF StepsCurrent, Committing

\* Begin finds no transaction pending and leaves none committed.
LEMMA BeginQuiet ==
    ASSUME ProcessKnows, NEW b, Begin(b)
    PROVE  /\ ~Behind /\ ~Behind'
           /\ UNCHANGED <<log, job, installed, logPuts, auth, snap>>
           /\ pc' \notin {"commit", "forward", "advance"}
<1>1. pending = NoPending
  BY DEF Begin, ProcessKnows
<1>2. pending.phase # "Committed"
  BY <1>1 DEF NoPending
<1>3. /\ UNCHANGED <<log, job, installed, logPuts, auth, snap>>
      /\ pc' \in {"failing", "writing"}
      /\ pending' = pending \/ pending'.phase = "Writing"
  BY SMT DEF Begin, Refuse, maintenance
<1> QED BY <1>2, <1>3 DEF Behind

\* No transaction is pending when a bound is completed.
LEMMA CompleteQuiet ==
    ASSUME ProcessKnows, NEW stop, CompleteRequest(stop)
    PROVE  ~Behind /\ ~Behind' /\ log' = log /\ auth # NoCheckpoint
<1>1. pending = NoPending /\ pending' = pending /\ log' = log /\ auth # NoCheckpoint
  BY DEF CompleteRequest, ProcessKnows
<1>2. pending.phase # "Committed"
  BY <1>1 DEF NoPending
<1> QED BY <1>1, <1>2 DEF Behind

\* The steps outside the commit phases that leave logs, jobs and requests.
LEMMA QuietStep ==
    ASSUME TypeOK, TypeOK', JournalInv, LogInv,
           \/ Acquire \/ Initialize \/ RollbackDone \/ ReconcileMirror \/ Clear
           \/ Finish
           \/ \E t \in Tables :
                \/ SendDelete(t) \/ DeleteDone(t) \/ DeleteUnresolved(t)
                \/ SendPart(t) \/ PartPublished(t) \/ PartRejected(t)
                \/ PartUnresolved(t)
           \/ \E r \in SUBSET Tables : RecordReceipts(r)
           \/ \E b \in Batches(auth) : Begin(b)
           \/ \E stop \in Stops : CompleteRequest(stop)
    PROVE  LogInv'
<1> USE DEF durable, process, maintenance, history
<1>a. ProcessKnows /\ MirrorFollows
  BY DEF JournalInv
<1>b. auth.ordinal \in Int
  BY SMT DEF TypeOK, Checkpoints
<1>c. \A t \in Tables : snap[t] <= Len(log[t]) /\ Len(log[t]) \in Nat
  BY LogTypes DEF LogInv, StepsCurrent
<1>d. ASSUME UNCHANGED <<log, job, installed, logPuts>>,
             snap' = snap \/ snap' = Never,
             pc' \notin {"commit", "forward", "advance"},
             Behind' <=> Behind, Behind => pending'.batch = pending.batch,
             auth.ordinal <= auth'.ordinal
      PROVE  LogInv'
  <2>1. \A t \in Tables : snap'[t] <= Len(log'[t])
    BY <1>c, <1>d, SMT DEF Never
  <2> QED BY <1>d, <2>1, SameLogs, NotCommitting DEF LogInv
<1>e. ASSUME UNCHANGED <<log, job, installed, logPuts, auth, pending>>,
             snap' = snap \/ snap' = Never,
             pc' \notin {"commit", "forward", "advance"}
      PROVE  LogInv'
  BY <1>b, <1>d, <1>e, SMT DEF Behind, Id
<1>f. ASSUME UNCHANGED <<log, job, installed, logPuts, auth, snap>>,
             pc' \notin {"commit", "forward", "advance"}, ~Behind, ~Behind'
      PROVE  LogInv'
  <2>1. auth.ordinal <= auth'.ordinal
    BY <1>b, <1>f, SMT
  <2> QED BY <1>d, <1>f, <2>1
<1>1. CASE Acquire
  BY <1>1, <1>e DEF Acquire
<1>2. CASE Initialize
  <2>1. ~Behind /\ ~Behind' /\ auth.ordinal = -1
    BY <1>2, <1>a, SMT DEF Initialize, MirrorFollows, Behind, NoPending, NoCheckpoint
  <2>2. auth.ordinal <= auth'.ordinal
    BY <1>2, <2>1, SMT DEF Initialize, Initial
  <2> QED BY <1>2, <1>d, <2>1, <2>2 DEF Initialize, Refuse
<1>3. CASE RollbackDone
  BY <1>3, <1>e DEF RollbackDone
<1>4. CASE ReconcileMirror
  BY <1>4, <1>e DEF ReconcileMirror, Refuse
<1>5. CASE Clear
  <2>1. ~Behind
    <3>1. CASE pending.phase = "Writing"
      BY <3>1 DEF Behind
    <3>2. CASE pending.phase = "Committed" /\ auth = Target(pending)
      BY <3>2, TargetDiffers, SMT DEF JournalInv, Behind, NoPending
    <3> QED BY <1>5, <1>a, <3>1, <3>2 DEF Clear, ProcessKnows
  <2>2. ~Behind'
    BY <1>5 DEF Clear, Behind, NoPending
  <2>3. pc' \in {"mirror", "ready"}
    BY <1>5 DEF Clear
  <2>4. pc' \notin {"commit", "forward", "advance"}
    BY <2>3
  <2> QED BY <1>5, <1>f, <2>1, <2>2, <2>4 DEF Clear
<1>6. CASE Finish
  BY <1>6, <1>e DEF Finish, Forget
<1>7. ASSUME NEW t \in Tables, SendDelete(t) PROVE LogInv'
  BY <1>7, <1>e DEF SendDelete
<1>8. ASSUME NEW t \in Tables, DeleteDone(t) PROVE LogInv'
  BY <1>8, <1>e DEF DeleteDone
<1>9. ASSUME NEW t \in Tables, DeleteUnresolved(t) PROVE LogInv'
  BY <1>9, <1>e DEF DeleteUnresolved
<1>10. ASSUME NEW t \in Tables, SendPart(t) PROVE LogInv'
  BY <1>10, <1>e DEF SendPart
<1>11. ASSUME NEW t \in Tables, PartPublished(t) PROVE LogInv'
  BY <1>11, <1>e DEF PartPublished
<1>12. ASSUME NEW t \in Tables, PartRejected(t) PROVE LogInv'
  BY <1>12, <1>e DEF PartRejected
<1>13. ASSUME NEW t \in Tables, PartUnresolved(t) PROVE LogInv'
  BY <1>13, <1>e DEF PartUnresolved
<1>14. ASSUME NEW r \in SUBSET Tables, RecordReceipts(r) PROVE LogInv'
  <2>1. ~Behind /\ ~Behind'
    BY <1>14, <1>a, ZenonT(30) DEF RecordReceipts, ProcessKnows, Behind, TypeOK, PendingSet
  <2> QED BY <1>14, <1>f, <2>1 DEF RecordReceipts
<1>15. ASSUME NEW b \in Batches(auth), Begin(b) PROVE LogInv'
  BY <1>15, <1>a, <1>f, BeginQuiet
<1>16. ASSUME NEW stop \in Stops, CompleteRequest(stop) PROVE LogInv'
  <2>1. ~Behind /\ ~Behind'
    BY <1>16, <1>a, CompleteQuiet
  <2>2. auth.ordinal <= auth'.ordinal
    BY <1>16, <1>b, SMT DEF CompleteRequest
  <2> QED BY <1>16, <1>d, <2>1, <2>2 DEF CompleteRequest
<1> QED
  BY <1>1, <1>2, <1>3, <1>4, <1>5, <1>6, <1>7, <1>8, <1>9, <1>10, <1>11,
     <1>12, <1>13, <1>14, <1>15, <1>16

\* The steps of operator, store and maintenance that leave logs and process.
LEMMA BesideStep ==
    ASSUME TypeOK, TypeOK', LogInv,
           UNCHANGED <<auth, pending, log, logPuts, installed, process>>,
           JobsCurrent'
    PROVE  LogInv'
<1>1. Behind' <=> Behind
  BY DEF Behind, Id
<1>2. /\ TxnsOrdered' /\ RowsKnown' /\ PutsCurrent'
      /\ \A t \in Tables : (Shown(t)' <=> Shown(t)) /\ (MayLand(t)' <=> MayLand(t))
  <2>1. \A t \in Tables : (Shown(t)' <=> Shown(t)) /\ (MayLand(t)' <=> MayLand(t))
    BY <1>1, SMT DEF Shown, MayLand
  <2>2. TxnsOrdered' /\ RowsKnown'
    BY <1>1, <2>1 DEF LogInv, TxnsOrdered, RowsKnown, Acknowledged, InCommit
  <2>3. PutsCurrent'
    BY <1>1, <2>1 DEF LogInv, PutsCurrent, TypeOK, LogPutSet
  <2> QED BY <2>1, <2>2, <2>3
<1>3. pending.batch.tabs \subseteq Tables
  BY DEF TypeOK, PendingSet, BatchSet
<1>4. StepsCurrent'
  BY <1>2, <1>3 DEF LogInv, StepsCurrent, StepCurrent, Committing, process
<1> QED BY <1>2, <1>4 DEF LogInv

\* A step that leaves journal, logs and jobs alone.
LEMMA SameJournal ==
    ASSUME TypeOK, TypeOK', LogInv,
           UNCHANGED <<auth, pending, log, job, installed>>
    PROVE  /\ Behind' <=> Behind
           /\ \A t \in Tables : Shown(t)' <=> Shown(t)
           /\ \A t \in Tables : MayLand(t)' <=> MayLand(t)
           /\ logPuts' \subseteq logPuts => PutsCurrent'
           /\ Shown(Blocks)' => \A t \in pending'.batch.tabs : Shown(t)'
           /\ PutsCurrent' /\ StepsCurrent' => LogInv'
<1>1. (Behind' <=> Behind) /\ auth.ordinal <= auth'.ordinal
  BY SMT DEF Behind, Id, TypeOK, Checkpoints
<1> QED BY <1>1, SameLogs DEF LogInv

-----------------------------------------------------------------------------
(* The commit phases, as long as no entry lands.                           *)

\* The recovery decision queues exactly the tables whose logs lack the
\* transaction.
LEMMA CheckProgressLogs ==
    ASSUME TypeOK, TypeOK', JournalInv, LogInv, CheckProgress
    PROVE  LogInv'
<1> USE DEF durable, process, maintenance, history
<1>1. UNCHANGED <<auth, pending, log, job, installed, logPuts, snap, at, err>>
  BY DEF CheckProgress
<1>2. /\ \A t \in Tables : Shown(t)' <=> Shown(t)
      /\ PutsCurrent' /\ (StepsCurrent' => LogInv')
      /\ Shown(Blocks)' => \A t \in pending'.batch.tabs : Shown(t)'
  BY <1>1, SameJournal
<1>3. \A t \in Tables : /\ snap[t] <= Len(log[t]) /\ Len(log[t]) \in Nat
                        /\ snap[t] \in Nat
  BY LogTypes DEF LogInv, StepsCurrent, TypeOK
<1>4. CASE pc' \notin {"commit", "forward", "advance"}
  BY <1>1, <1>2, <1>3, <1>4, NotCommitting
<1>5. CASE pc' \in {"commit", "forward", "advance"}
  <2> DEFINE uncommitted == pending.batch.tabs \ Holding
  <2>1. /\ Behind
        /\ \/ pc' = "advance" /\ uncommitted = {}
           \/ pc' = "forward" /\ step' = Queue(uncommitted)
    BY <1>5 DEF CheckProgress, Refuse, RecoverWriting, RecoverCommitted
  <2>2. pending.batch.tabs \subseteq Tables
    BY <2>1, BehindFacts
  <2>3. ASSUME NEW t \in pending.batch.tabs
        PROVE  t \in Holding <=>
                 \E i \in 1..snap[t] : log[t][i].txn = pending.batch.last
    <3>1. t \in Tables /\ snap[t] \in 0..Len(log[t])
      BY <1>3, <2>2, SMT
    <3>2. TxnAt(log[t], snap[t]) = pending.batch.last
            <=> \E i \in 1..snap[t] : log[t][i].txn = pending.batch.last
      BY <2>1, <3>1, TxnAtOwn DEF LogInv
    <3> QED BY <2>1, <3>2 DEF Holding
  <2>4. ASSUME NEW t \in pending.batch.tabs, t \in Holding
        PROVE  Shown(t)'
    <3>1. \A i \in 1..snap[t] : i \in Versions(log[t])
      BY <1>3, <2>2, SMT DEF Versions
    <3>2. Shown(t)
      BY <2>1, <2>3, <2>4, <3>1 DEF Shown
    <3> QED BY <1>2, <2>2, <3>2
  <2> HIDE DEF uncommitted
  <2>5. CASE pc' = "advance" /\ uncommitted = {}
    <3>1. \A t \in pending'.batch.tabs : Shown(t)'
      BY <1>1, <2>4, <2>5 DEF uncommitted
    <3>2. StepsCurrent'
      BY <1>1, <1>3, <2>5, <3>1 DEF StepsCurrent, Committing
    <3> QED BY <1>2, <3>2
  <2>6. CASE pc' = "forward" /\ step' = Queue(uncommitted)
    <3>1. \A t \in Tables : step'[t] = IF t \in uncommitted THEN "todo" ELSE "off"
      BY <2>6 DEF Queue
    <3>2. ASSUME NEW t \in Tables, step'[t] \in {"todo", "sent"}
          PROVE  /\ t \in pending.batch.tabs
                 /\ \A i \in 1..snap[t] : log[t][i].txn # pending.batch.last
      BY <2>3, <3>1, <3>2 DEF uncommitted
    <3>3. ASSUME NEW t \in Tables, step'[t] \in {"off", "done"},
                 t \in pending.batch.tabs
          PROVE  Shown(t)'
      BY <2>4, <3>1, <3>3 DEF uncommitted
    <3>4. \A t \in Tables : StepCurrent(t)'
      BY <1>1, <3>1, <3>2, <3>3 DEF StepCurrent
    <3>5. StepsCurrent'
      BY <1>1, <1>2, <1>3, <2>6, <3>4 DEF StepsCurrent
    <3> QED BY <1>2, <3>5
  <2> QED BY <2>1, <2>5, <2>6
<1> QED BY <1>4, <1>5

\* A commit request names the next version only of a log that lacks the
\* transaction, and for `blocks` only when every other table shows it.
LEMMA SendCommitLogs ==
    ASSUME TypeOK, TypeOK', JournalInv, LogInv, NEW t \in Tables, SendCommit(t)
    PROVE  LogInv'
<1> USE DEF durable, process, maintenance, history
<1>1. UNCHANGED <<auth, pending, log, job, installed, logPuts, snap, pc, err>>
  BY DEF SendCommit
<1>2. /\ \A u \in Tables : Shown(u)' <=> Shown(u)
      /\ \A u \in Tables : MayLand(u)' <=> MayLand(u)
      /\ PutsCurrent' /\ (StepsCurrent' => LogInv')
  BY <1>1, SameJournal
<1>3. Behind /\ Committing /\ step[t] = "todo" /\ ~err
  BY CommittingBehind DEF SendCommit
<1>4. /\ pending.batch.tabs \subseteq Tables /\ t \in pending.batch.tabs
      /\ \A i \in 1..snap[t] : log[t][i].txn # pending.batch.last
      /\ snap[t] <= Len(log[t])
  BY <1>3, BehindFacts DEF LogInv, StepsCurrent, StepCurrent
<1>5. /\ step' = [step EXCEPT ![t] = "sent"]
      /\ at' = [at EXCEPT ![t] = snap[t] + 1]
  BY DEF SendCommit
<1>6. t = Blocks => \A u \in pending.batch.tabs \ {t} : Shown(u)
  <2> SUFFICES ASSUME t = Blocks, NEW u \in pending.batch.tabs, u # t
               PROVE  Shown(u)
    OBVIOUS
  <2>1. u \in Tables /\ step[u] \notin {"todo", "sent"}
    BY <1>4, SMT DEF SendCommit, With
  <2>2. step[u] \in {"off", "todo", "sent", "done", "failed"}
    BY <2>1 DEF TypeOK
  <2>3. step[u] # "failed"
    BY <1>3, <2>1 DEF LogInv, StepsCurrent, StepCurrent
  <2> QED BY <1>3, <2>1, <2>2, <2>3 DEF LogInv, StepsCurrent, StepCurrent
<1>7. snap[t] \in Nat /\ Len(log[t]) \in Nat
  BY LogTypes DEF TypeOK
<1>8. snap[t] = Len(log[t]) => ~Shown(t)
  BY <1>4 DEF Shown, Versions
<1>9. snap[t] = Len(log[t]) => MayLand(t)
  BY <1>3, <1>4, <1>6, <1>8 DEF MayLand
<1>10. /\ step'[t] = "sent" /\ at'[t] = snap[t] + 1
       /\ \A u \in Tables : u # t => step'[u] = step[u] /\ at'[u] = at[u]
  BY <1>5 DEF TypeOK
<1>11. ASSUME NEW u \in Tables PROVE StepCurrent(u)'
  <2>1. CASE u = t
    BY <1>1, <1>2, <1>4, <1>6, <1>7, <1>9, <1>10, <2>1, SMTT(30) DEF StepCurrent
  <2>2. CASE u # t
    <3>1. StepCurrent(u)
      BY <1>3 DEF LogInv, StepsCurrent
    <3> QED BY <1>1, <1>2, <1>4, <1>10, <2>2, <3>1 DEF StepCurrent
  <2> QED BY <2>1, <2>2
<1>12. pc' # "advance"
  BY <1>1, <1>3 DEF Committing
<1>13. StepsCurrent'
  BY <1>1, <1>2, <1>4, <1>11, <1>12 DEF LogInv, StepsCurrent
<1> QED BY <1>2, <1>13

\* A refused commit is sent again only to a log that lacks the transaction.
LEMMA CommitRefusedLogs ==
    ASSUME TypeOK, TypeOK', JournalInv, LogInv, NEW t \in Tables,
           CommitRefused(t)
    PROVE  LogInv'
<1> USE DEF durable, process, maintenance, history
<1>1. UNCHANGED <<auth, pending, log, job, installed, logPuts, pc>>
  BY DEF CommitRefused
<1>2. /\ \A u \in Tables : Shown(u)' <=> Shown(u)
      /\ \A u \in Tables : MayLand(u)' <=> MayLand(u)
      /\ PutsCurrent' /\ (StepsCurrent' => LogInv')
  BY <1>1, SameJournal
<1>3. Behind /\ Committing /\ step[t] = "sent"
  BY CommittingBehind DEF CommitRefused
<1>4. /\ pending.batch.tabs \subseteq Tables
      /\ \A u \in Tables : StepCurrent(u) /\ snap[u] <= Len(log[u])
  BY <1>3, BehindFacts DEF LogInv, StepsCurrent
<1>5. snap[t] \in Nat /\ Len(log[t]) \in Nat
  BY LogTypes DEF TypeOK
<1>6. \A u \in Tables : u # t => /\ step'[u] = step[u] /\ at'[u] = at[u]
                                 /\ snap'[u] = snap[u]
  <2>1. /\ \/ step' = step
           \/ step' = [step EXCEPT ![t] = "done"]
           \/ step' = [step EXCEPT ![t] = "failed"]
        /\ (at' = at \/ at' = [at EXCEPT ![t] = Len(log[t]) + 1])
        /\ (snap' = snap \/ snap' = [snap EXCEPT ![t] = Len(log[t])])
    BY DEF CommitRefused
  <2>2. DOMAIN step = Tables /\ DOMAIN at = Tables /\ DOMAIN snap = Tables
    BY SMT DEF TypeOK
  <2>3. ASSUME NEW u \in Tables, u # t PROVE step'[u] = step[u]
    BY <2>1, <2>2, <2>3
  <2>4. ASSUME NEW u \in Tables, u # t PROVE at'[u] = at[u]
    BY <2>1, <2>2, <2>4
  <2>5. ASSUME NEW u \in Tables, u # t PROVE snap'[u] = snap[u]
    BY <2>1, <2>2, <2>5
  <2> QED BY <2>3, <2>4, <2>5
<1>7. err => err'
  BY DEF CommitRefused
<1>d. ASSUME StepCurrent(t)', \A u \in Tables : snap'[u] <= Len(log'[u])
      PROVE  LogInv'
  <2>1. ASSUME NEW u \in Tables, u # t PROVE StepCurrent(u)'
    BY <1>1, <1>2, <1>4, <1>6, <1>7, <2>1 DEF StepCurrent
  <2>2. pc' # "advance"
    BY <1>1, <1>3 DEF Committing
  <2>3. StepsCurrent'
    BY <1>1, <1>2, <1>4, <1>d, <2>1, <2>2 DEF LogInv, StepsCurrent
  <2> QED BY <1>2, <2>3
<1>8. CASE /\ ~SameApp(t) /\ at' = [at EXCEPT ![t] = Len(log[t]) + 1]
           /\ UNCHANGED <<step, snap, err>>
  <2>1. ~Shown(t)
    <3>1. \A i \in Versions(log[t]) : log[t][i].txn # pending.batch.last
      <4>1. \A i \in snap[t] + 1 .. Len(log[t]) : log[t][i].txn = 0
        BY <1>8 DEF SameApp
      <4>2. \A i \in 1..snap[t] : log[t][i].txn # pending.batch.last
        BY <1>3, <1>4 DEF StepCurrent
      <4>3. pending.batch.last # 0
        BY <1>3, BehindFacts
      <4>4. \A i \in Versions(log[t]) :
                i \in 1..snap[t] \/ i \in snap[t] + 1 .. Len(log[t])
        BY <1>4, <1>5, SMT DEF Versions
      <4> QED BY <4>1, <4>2, <4>3, <4>4
    <3> QED BY <3>1 DEF Shown
  <2>2. MayLand(t)
    BY <1>3, <1>4, <2>1 DEF MayLand, StepCurrent
  <2>3. at'[t] = Len(log[t]) + 1 /\ step'[t] = "sent" /\ snap'[t] = snap[t]
    BY <1>3, <1>8 DEF TypeOK
  <2>4. StepCurrent(t)'
    BY <1>1, <1>2, <1>3, <1>4, <1>5, <2>2, <2>3, SMT DEF StepCurrent
  <2> QED BY <1>1, <1>4, <1>8, <1>d, <2>4
<1>9. CASE /\ pc = "forward" /\ TxnAt(log[t], Len(log[t])) = pending.batch.last
           /\ step' = [step EXCEPT ![t] = "done"]
           /\ snap' = [snap EXCEPT ![t] = Len(log[t])]
  <2>1. \E i \in Versions(log[t]) : log[t][i].txn = pending.batch.last
    <3>1. Len(log[t]) \in 0..Len(log[t])
      BY <1>5, SMT
    <3>2. \E i \in 1..Len(log[t]) : log[t][i].txn = pending.batch.last
      BY <1>3, <1>9, <3>1, TxnAtOwn DEF LogInv
    <3> QED BY <3>2 DEF Versions
  <2>2. Shown(t)
    BY <1>3, <2>1 DEF Shown
  <2>3. step'[t] = "done" /\ snap'[t] = Len(log[t])
    BY <1>9 DEF TypeOK
  <2>4. StepCurrent(t)'
    BY <1>1, <1>2, <2>2, <2>3 DEF StepCurrent
  <2>5. \A u \in Tables : snap'[u] <= Len(log'[u])
    BY <1>1, <1>4, <1>5, <1>6, <2>3, SMT
  <2> QED BY <2>4, <2>5, <1>d
<1>10. CASE /\ step' = [step EXCEPT ![t] = "failed"] /\ err' = TRUE
            /\ snap' = snap
  <2>1. step'[t] = "failed"
    BY <1>10 DEF TypeOK
  <2>2. StepCurrent(t)'
    BY <1>10, <2>1 DEF StepCurrent
  <2> QED BY <1>1, <1>4, <1>10, <1>d, <2>2
<1> QED BY <1>8, <1>9, <1>10 DEF CommitRefused

\* Ending the phase, failing and draining change no log.
LEMMA CommitEndLogs ==
    ASSUME TypeOK, TypeOK', JournalInv, LogInv, CommitsDone \/ Drained \/ Fail
    PROVE  LogInv'
<1> USE DEF durable, process, maintenance, history
<1>1. /\ UNCHANGED <<auth, pending, log, job, installed, logPuts>>
      /\ UNCHANGED <<snap, step, at>>
  BY DEF CommitsDone, Drained, Fail
<1>2. /\ \A u \in Tables : Shown(u)' <=> Shown(u)
      /\ \A u \in Tables : MayLand(u)' <=> MayLand(u)
      /\ PutsCurrent' /\ (StepsCurrent' => LogInv')
      /\ Shown(Blocks)' => \A t \in pending'.batch.tabs : Shown(t)'
  BY <1>1, SameJournal
<1>3. /\ pending.batch.tabs \subseteq Tables
      /\ \A u \in Tables : snap'[u] <= Len(log'[u])
  BY <1>1 DEF LogInv, StepsCurrent, TypeOK, PendingSet, BatchSet
<1>4. CASE CommitsDone
  <2>1. /\ Committing /\ ~err /\ pc' = "advance"
        /\ \A t \in Tables : step[t] \notin {"todo", "sent"}
    BY <1>4 DEF CommitsDone, With
  <2>2. \A t \in Tables : /\ StepCurrent(t)
                          /\ step[t] \in {"off", "todo", "sent", "done", "failed"}
    BY <2>1 DEF LogInv, StepsCurrent, TypeOK
  <2>3. \A t \in pending.batch.tabs : Shown(t)
    BY <1>3, <2>1, <2>2 DEF StepCurrent
  <2>4. StepsCurrent'
    BY <1>1, <1>2, <1>3, <2>1, <2>3 DEF StepsCurrent, Committing
  <2> QED BY <1>2, <2>4
<1>5. CASE pc' \notin {"commit", "forward", "advance"}
  BY <1>2, <1>3, <1>5, NotCommitting
<1>6. CASE pc' = pc /\ Committing /\ err' = TRUE
  <2>1. \A t \in Tables : StepCurrent(t)
    BY <1>6 DEF LogInv, StepsCurrent
  <2>2. \A t \in Tables : StepCurrent(t)'
    BY <1>1, <1>2, <1>3, <1>6, <2>1 DEF StepCurrent
  <2>3. pc' # "advance"
    BY <1>6 DEF Committing
  <2>4. StepsCurrent'
    BY <1>2, <1>3, <2>2, <2>3 DEF StepsCurrent
  <2> QED BY <1>2, <2>4
<1>7. ASSUME Fail
      PROVE  \/ pc' = "failing"
             \/ pc' = pc /\ pc = "writing"
             \/ pc' = pc /\ Committing /\ err' = TRUE
  <2>1. CASE pc = "writing" \/ Committing
    BY <1>7, <2>1 DEF Fail
  <2>2. CASE ~(pc = "writing" \/ Committing)
    BY <1>7, <2>2 DEF Fail
  <2> QED BY <2>1, <2>2
<1>8. Drained => pc' = "failing"
  BY DEF Drained
<1> QED BY <1>4, <1>5, <1>6, <1>7, <1>8

\* A dying process leaves only requests that are current.
LEMMA CrashLogs ==
    ASSUME TypeOK, TypeOK', JournalInv, LogInv, Crash
    PROVE  LogInv'
<1> USE DEF durable, process, maintenance, history
<1>1. /\ UNCHANGED <<auth, pending, log, job, installed>>
      /\ logPuts' = logPuts \cup LiveLogPuts /\ pc' = "down" /\ snap' = Never
  BY DEF Crash, Forget
<1>2. /\ \A u \in Tables : MayLand(u)' <=> MayLand(u)
      /\ PutsCurrent' /\ StepsCurrent' => LogInv'
      /\ Shown(Blocks)' => \A t \in pending'.batch.tabs : Shown(t)'
  BY <1>1, SameJournal
<1>3. ASSUME NEW p \in LiveLogPuts
      PROVE  /\ p.table \in Tables /\ p.version <= Len(log[p.table]) + 1
             /\ p.version = Len(log[p.table]) + 1 => MayLand(p.table)
             /\ p.entry = AppendEntry(pending.batch, p.table)
  <2>1. PICK t \in Tables :
          /\ Committing /\ step[t] = "sent"
          /\ p = [table |-> t, version |-> at[t],
                  entry |-> AppendEntry(pending.batch, t)]
    BY DEF LiveLogPuts, With
  <2>2. StepCurrent(t)
    BY <2>1 DEF LogInv, StepsCurrent
  <2> QED BY <2>1, <2>2 DEF StepCurrent
<1>4. PutsCurrent'
  <2>1. \A p \in logPuts : p.table \in Tables
    BY DEF TypeOK, LogPutSet
  <2> QED BY <1>1, <1>2, <1>3, <2>1 DEF LogInv, PutsCurrent
<1>5. \A t \in Tables : snap'[t] <= Len(log'[t])
  BY <1>1, LogTypes, SMT DEF Never
<1>6. StepsCurrent'
  BY <1>1, <1>2, <1>5, NotCommitting
<1> QED BY <1>2, <1>4, <1>6

\* A table whose commit failed, whether or not its request is on its way.
LEMMA UnresolvedLogs ==
    ASSUME TypeOK, TypeOK', JournalInv, LogInv, NEW t \in Tables,
           CommitUnresolved(t), log' = log
    PROVE  LogInv'
<1> USE DEF durable, process, maintenance, history
<1> DEFINE put == [table |-> t, version |-> at[t],
                   entry |-> AppendEntry(pending.batch, t)]
<1>1. /\ UNCHANGED <<auth, pending, log, job, installed, pc, snap, at>>
      /\ logPuts' \subseteq logPuts \cup {put}
      /\ step' = [step EXCEPT ![t] = "failed"] /\ err' = TRUE
      /\ Committing /\ step[t] = "sent"
  BY DEF CommitUnresolved
<1>2. /\ \A u \in Tables : Shown(u)' <=> Shown(u)
      /\ \A u \in Tables : MayLand(u)' <=> MayLand(u)
      /\ PutsCurrent' /\ StepsCurrent' => LogInv'
  BY <1>1, SameJournal
<1>3. /\ \A u \in Tables : StepCurrent(u)
      /\ pending.batch.tabs \subseteq Tables
  BY <1>1 DEF LogInv, StepsCurrent, TypeOK, PendingSet, BatchSet
<1>4. PutsCurrent'
  <2>1. \A p \in logPuts : p.table \in Tables
    BY DEF TypeOK, LogPutSet
  <2>2. /\ put.table = t /\ put.version = at[t]
        /\ put.entry = AppendEntry(pending.batch, t)
    OBVIOUS
  <2>3. at[t] <= Len(log[t]) + 1 /\ (at[t] = Len(log[t]) + 1 => MayLand(t))
    BY <1>1, <1>3 DEF StepCurrent
  <2> HIDE DEF put
  <2> QED BY <1>1, <1>2, <2>1, <2>2, <2>3 DEF LogInv, PutsCurrent
<1>5. ASSUME NEW u \in Tables PROVE StepCurrent(u)'
  <2>1. step'[u] = IF u = t THEN "failed" ELSE step[u]
    BY <1>1 DEF TypeOK
  <2> QED BY <1>1, <1>2, <1>3, <2>1, SMT DEF StepCurrent
<1>6. pc' # "advance"
  BY <1>1 DEF Committing
<1>7. StepsCurrent'
  BY <1>1, <1>2, <1>3, <1>5, <1>6 DEF LogInv, StepsCurrent
<1> QED BY <1>2, <1>4, <1>7

-----------------------------------------------------------------------------
(* The journal's decisions.                                                *)

\* The transaction becomes Committed: no log has it and no request can land.
LEMMA MarkCommittedLogs ==
    ASSUME TypeOK, TypeOK', JournalInv, JournalInv', LogInv, MarkCommitted
    PROVE  LogInv'
<1> USE DEF durable, process, maintenance, history
<1>1. /\ UNCHANGED <<auth, log, job, installed, logPuts, snap, at, err>>
      /\ \A t \in Tables : snap[t] <= Len(log[t])
  BY DEF MarkCommitted, LogInv, StepsCurrent
<1>2. ~Behind
  BY DEF MarkCommitted, JournalInv, ProcessKnows, Behind
<1>3. \A t \in Tables : ~Shown(t) /\ ~MayLand(t)
  BY <1>2 DEF Shown, MayLand
<1>4. CASE pending' = pending /\ pc' = "failing"
  <2>1. Behind' <=> Behind /\ auth.ordinal <= auth'.ordinal
    BY <1>1, <1>4, SMTT(30) DEF Behind, Id, TypeOK, Checkpoints
  <2> QED BY <1>1, <1>4, <2>1, SameJournal, NotCommitting
<1>5. CASE /\ pending' = [pending EXCEPT !.phase = "Committed"]
           /\ step' = Queue(pending.batch.tabs) /\ pc' = "commit"
  <2>1. /\ pending'.batch = pending.batch
        /\ Behind'
    <3>1. pending'.batch = pending.batch
      BY <1>5 DEF TypeOK, PendingSet
    <3> QED BY <1>5, <3>1, CommittingBehind DEF JournalInv, ProcessKnows,
               Behind, Committing
  <2>2. /\ auth.ordinal < pending.batch.last /\ pending.batch.last # 0
        /\ auth.ordinal \in Nat /\ pending.batch.last \in Nat
        /\ pending.batch.tabs \subseteq Tables
    <3>1. /\ auth'.ordinal < pending'.batch.last /\ pending'.batch.last # 0
          /\ auth'.ordinal \in Nat /\ pending'.batch.last \in Nat
          /\ pending'.batch.tabs \subseteq Tables
      <4>1. pending'.phase = "Committed" /\ auth' = pending'.pred
            /\ pending' # NoPending
        BY <1>5 DEF JournalInv, ProcessKnows, NoPending
      <4>2. /\ auth'.ordinal >= 0 /\ pending'.batch.first = auth'.ordinal + 1
            /\ pending'.batch.first <= pending'.batch.last
        BY <4>1 DEF JournalInv, JournalContinues
      <4>3. /\ auth'.ordinal \in Int /\ pending'.batch.last \in Nat
            /\ pending'.batch.first \in Nat
            /\ pending'.batch.tabs \subseteq Tables
        <5>1. pending' \in PendingSet /\ auth' \in Checkpoints
          BY DEF TypeOK
        <5>2. pending'.batch \in BatchSet
          BY <5>1 DEF PendingSet
        <5> QED BY <5>1, <5>2, SMT DEF Checkpoints, BatchSet
      <4> QED BY <4>2, <4>3, SMT
    <3> QED BY <1>1, <2>1, <3>1
  <2>3. \A t \in Tables : \A i \in Versions(log[t]) :
          log[t][i].txn # pending.batch.last
    <3>1. \A t \in Tables : \A i \in Versions(log[t]) :
            /\ log[t][i].txn = 0 \/ log[t][i].txn <= auth.ordinal
            /\ log[t][i].txn \in Nat
      BY <1>3, NotShown, LogTypes DEF LogInv
    <3> QED BY <2>2, <3>1, SMT
  <2>4. \A t \in Tables : ~Shown(t)'
    BY <1>1, <2>1, <2>3 DEF Shown
  <2>5. TxnsOrdered'
    BY <1>1, <1>2 DEF LogInv, TxnsOrdered
  <2>6. RowsKnown'
    <3>1. \A t \in Tables : {b \in InCommit(t) : Shown(t)} = {}
                            /\ {b \in InCommit(t) : Shown(t)}' = {}
      BY <1>3, <2>4
    <3>2. \A t \in Tables : Acknowledged(t)' = Acknowledged(t)
      BY <1>1 DEF Acknowledged
    <3> QED BY <1>1, <3>1, <3>2 DEF LogInv, RowsKnown
  <2>7. PutsCurrent'
    <3>1. \A p \in logPuts : p.version <= Len(log[p.table]) + 1
                             /\ p.version # Len(log[p.table]) + 1
      BY <1>3 DEF LogInv, PutsCurrent, TypeOK, LogPutSet
    <3> QED BY <1>1, <3>1 DEF PutsCurrent
  <2>8. JobsCurrent'
    BY <1>1 DEF LogInv, JobsCurrent
  <2>9. ASSUME NEW t \in Tables PROVE StepCurrent(t)'
    <3>1. step'[t] = IF t \in pending.batch.tabs THEN "todo" ELSE "off"
      BY <1>5 DEF Queue
    <3>2. \A i \in 1..snap[t] : i \in Versions(log[t])
      BY <1>1, LogTypes, SMT DEF Versions, TypeOK
    <3> QED BY <1>1, <2>1, <2>3, <3>1, <3>2 DEF StepCurrent
  <2>10. StepsCurrent'
    BY <1>1, <1>5, <2>4, <2>9 DEF StepsCurrent
  <2> QED BY <2>5, <2>6, <2>7, <2>8, <2>10 DEF LogInv
<1> QED BY <1>4, <1>5 DEF MarkCommitted, Refuse

\* The authority takes in a transaction that all its tables show.
LEMMA AdvanceLogs ==
    ASSUME TypeOK, TypeOK', JournalInv, LogInv, Advance
    PROVE  LogInv'
<1> USE DEF durable, process, maintenance, history
<1>1. /\ UNCHANGED <<pending, log, job, logPuts, snap>>
      /\ auth' = Target(pending) /\ pc' = "mirror"
      /\ installed' = installed \cup {pending.batch}
      /\ \A t \in Tables : snap[t] <= Len(log[t])
  BY DEF Advance, LogInv, StepsCurrent
<1>2. Behind
  BY CommittingBehind DEF Advance
<1>3. /\ pending.batch.tabs \subseteq Tables
      /\ auth.ordinal < pending.batch.last
      /\ auth.ordinal \in Nat /\ pending.batch.last \in Nat
      /\ pending # NoPending
  BY <1>2, BehindFacts
<1>4. \A t \in pending.batch.tabs : Shown(t)
  BY DEF Advance, LogInv, StepsCurrent
<1>5. ~Behind'
  BY <1>1, <1>3, TargetDiffers DEF Behind, JournalInv
<1>6. auth'.ordinal = pending.batch.last
  BY <1>1 DEF Target
<1>7. TxnsOrdered'
  <2>1. \A t \in Tables : \A i \in Versions(log[t]) : log[t][i].txn \in Nat
    BY LogTypes
  <2>2. \A t \in Tables : \A i \in Versions(log[t]) :
          log[t][i].txn <= auth'.ordinal \/ log[t][i].txn = 0
    BY <1>3, <1>6, <2>1, SMT DEF LogInv, TxnsOrdered
  <2> QED BY <1>1, <2>2 DEF LogInv, TxnsOrdered
<1>8. ASSUME NEW t \in Tables
      PROVE  Rows(log[t])' = Acknowledged(t)' \cup {b \in InCommit(t) : Shown(t)}'
  <2>1. {b \in InCommit(t) : Shown(t)}' = {}
    BY <1>5 DEF InCommit
  <2>2. {b \in InCommit(t) : Shown(t)} = {b \in {pending.batch} : t \in b.tabs}
    BY <1>2, <1>4 DEF InCommit
  <2>3. Acknowledged(t)' = Acknowledged(t) \cup {b \in {pending.batch} : t \in b.tabs}
    BY <1>1 DEF Acknowledged
  <2>4. Rows(log[t]) = Acknowledged(t) \cup {b \in InCommit(t) : Shown(t)}
    BY DEF LogInv, RowsKnown
  <2> QED BY <1>1, <2>1, <2>2, <2>3, <2>4
<1>9. RowsKnown'
  BY <1>1, <1>8 DEF LogInv, RowsKnown
<1>10. PutsCurrent'
  <2>1. ASSUME NEW p \in logPuts
        PROVE  /\ p.version <= Len(log[p.table]) + 1
               /\ p.version # Len(log[p.table]) + 1
    BY <1>4 DEF LogInv, PutsCurrent, MayLand
  <2> QED BY <1>1, <2>1 DEF PutsCurrent
<1>11. JobsCurrent'
  BY <1>1 DEF LogInv, JobsCurrent
<1>12. ~Shown(Blocks)'
  BY <1>5 DEF Shown
<1>13. StepsCurrent'
  BY <1>1, <1>12, NotCommitting
<1> QED BY <1>7, <1>9, <1>10, <1>11, <1>13 DEF LogInv

-----------------------------------------------------------------------------
(* Steps that append one entry to one log.                                 *)

\* A commit that lands is the transaction's first in that log.
LEMMA LandedLogs ==
    ASSUME TypeOK, TypeOK', JournalInv, LogInv, NEW t \in Tables, MayLand(t),
           Landed(t), UNCHANGED <<auth, pending, job, installed>>
    PROVE  /\ TxnsOrdered' /\ RowsKnown' /\ JobsCurrent'
           /\ Behind /\ Behind'
           /\ \A u \in Tables : Shown(u)' <=> u = t \/ Shown(u)
           /\ \A u \in Tables : u # t /\ MayLand(u) => MayLand(u)'
           /\ logPuts' \subseteq logPuts => PutsCurrent'
           /\ Shown(Blocks)' => \A u \in pending'.batch.tabs : Shown(u)'
<1> DEFINE b == pending.batch
           e == AppendEntry(b, t)
           l == log[t]
<1>1. /\ Behind /\ Behind' /\ t \in b.tabs /\ ~Shown(t)
      /\ t = Blocks => \A u \in b.tabs \ {t} : Shown(u)
  BY DEF MayLand, Behind, Id
<1>2. /\ b \in BatchSet /\ b.tabs \subseteq Tables /\ b.last \in Nat
      /\ auth.ordinal \in Nat /\ auth.ordinal < b.last /\ b.last # 0
      /\ b \notin installed
  BY <1>1, BehindFacts
<1>3. e \in EntrySet /\ l \in Seq(EntrySet) /\ Len(l) \in Nat
  BY <1>2, PartType, LogTypes
<1>4. /\ log'[t] = Append(l, e)
      /\ \A u \in Tables : u # t => log'[u] = log[u]
  BY DEF Landed, TypeOK
<1>5. e.txn = b.last /\ e.add = {Part(b, t)} /\ e.rem = {}
  BY DEF AppendEntry
<1>6. /\ Len(log'[t]) = Len(l) + 1 /\ log'[t][Len(l) + 1] = e
      /\ \A i \in Versions(l) : log'[t][i] = l[i]
      /\ Versions(log'[t]) = Versions(l) \cup {Len(l) + 1}
      /\ \A i \in Versions(l) : i < Len(l) + 1 /\ i \in Nat
  <2>1. Extends(Append(l, e), l, e)
    BY <1>3, AppendEntries
  <2>2. Extends(log'[t], l, e)
    BY <1>4, <2>1
  <2> HIDE DEF e, l
  <2> QED BY <2>2 DEF Extends
<1>7. Active(log'[t]) = Active(l) \cup {Part(b, t)}
  BY <1>3, <1>4, <1>5, ActiveAppend, SMT
<1> HIDE DEF e
<1>8. ASSUME NEW u \in Tables PROVE Shown(u)' <=> u = t \/ Shown(u)
  <2>1. CASE u = t
    BY <1>1, <1>5, <1>6, <2>1 DEF Shown
  <2>2. CASE u # t
    BY <1>1, <1>4, <2>2 DEF Shown
  <2> QED BY <2>1, <2>2
<1>9. TxnsOrdered'
  <2>1. \A i \in Versions(l) : /\ l[i].txn = 0 \/ l[i].txn <= auth.ordinal
                               /\ l[i].txn \in Nat
    BY <1>1, NotShown, LogTypes DEF LogInv
  <2>2. ASSUME NEW i \in Versions(log'[t])
        PROVE  /\ \/ log'[t][i].txn <= auth.ordinal \/ log'[t][i].txn = 0
                  \/ log'[t][i].txn = b.last
               /\ \A j \in Versions(log'[t]) :
                    i < j /\ log'[t][i].txn # 0 /\ log'[t][j].txn # 0
                        => log'[t][i].txn < log'[t][j].txn
    <3>1. CASE i = Len(l) + 1
      BY <1>3, <1>5, <1>6, <3>1, SMT
    <3>2. CASE i \in Versions(l)
      <4>1. \A j \in Versions(l) : i < j /\ l[i].txn # 0 /\ l[j].txn # 0
                                     => l[i].txn < l[j].txn
        BY <3>2 DEF LogInv, TxnsOrdered
      <4>2. l[i].txn # 0 => l[i].txn < b.last
        BY <1>2, <2>1, <3>2, SMT
      <4> HIDE DEF b, l
      <4>3. ASSUME NEW j \in Versions(log'[t]), i < j,
                   log'[t][i].txn # 0, log'[t][j].txn # 0
            PROVE  log'[t][i].txn < log'[t][j].txn
        <5>1. CASE j = Len(l) + 1
          BY <1>5, <1>6, <3>2, <4>2, <4>3, <5>1
        <5>2. CASE j \in Versions(l)
          BY <1>6, <3>2, <4>1, <4>3, <5>2
        <5> QED BY <1>6, <5>1, <5>2
      <4> QED BY <1>6, <2>1, <3>2, <4>3
    <3> QED BY <1>6, <3>1, <3>2
  <2>3. ASSUME NEW u \in Tables, u # t, NEW i \in Versions(log'[u])
        PROVE  /\ \/ log'[u][i].txn <= auth.ordinal \/ log'[u][i].txn = 0
                  \/ u \in b.tabs /\ log'[u][i].txn = b.last
               /\ \A j \in Versions(log'[u]) :
                    i < j /\ log'[u][i].txn # 0 /\ log'[u][j].txn # 0
                        => log'[u][i].txn < log'[u][j].txn
    BY <1>4, <2>3, SMT DEF LogInv, TxnsOrdered
  <2> QED BY <1>1, <2>2, <2>3 DEF TxnsOrdered
<1>10. ASSUME NEW u \in Tables
       PROVE  /\ Rows(log[u])' = Acknowledged(u)' \cup {c \in InCommit(u) : Shown(u)}'
              /\ \A f, g \in Active(log[u])' : f.rows \cap g.rows # {} => f = g
  <2>0. /\ Rows(log[u]) = Acknowledged(u) \cup {c \in InCommit(u) : Shown(u)}
        /\ \A f, g \in Active(log[u]) : f.rows \cap g.rows # {} => f = g
        /\ Acknowledged(u)' = Acknowledged(u)
        /\ InCommit(u)' = InCommit(u)
    BY <1>1 DEF LogInv, RowsKnown, Acknowledged, InCommit
  <2>1. CASE u = t
    <3>1. Rows(l) = Acknowledged(t) /\ b \notin Rows(l)
      BY <1>1, <1>2, <2>0, <2>1 DEF Acknowledged
    <3>2. Part(b, t).rows = {b}
      BY DEF Part
    <3>3. Rows(log'[t]) = Rows(l) \cup {b}
      BY <1>7, <3>2, SMT DEF Rows
    <3>4. {c \in InCommit(t) : Shown(t)}' = {b}
      BY <1>1, <1>8 DEF InCommit
    <3>5. \A f \in Active(l) : b \notin f.rows
      BY <3>1 DEF Rows
    <3>6. \A f, g \in Active(log'[t]) : f.rows \cap g.rows # {} => f = g
      BY <1>7, <2>0, <2>1, <3>2, <3>5, SMT
    <3> QED BY <2>0, <2>1, <3>1, <3>3, <3>4, <3>6
  <2>2. CASE u # t
    BY <1>4, <1>8, <2>0, <2>2
  <2> QED BY <2>1, <2>2
<1>11. RowsKnown'
  BY <1>10 DEF RowsKnown
<1>12. JobsCurrent'
  <2>1. ASSUME NEW u \in Tables, job[u] # NoJob
        PROVE  /\ job[u].base <= Len(log'[u])
               /\ job[u].base = Len(log'[u]) => job[u].src \subseteq Active(log'[u])
    <3>1. job[u].base \in Nat /\ job[u].base <= Len(log[u])
      BY <2>1 DEF LogInv, JobsCurrent, TypeOK, JobSet
    <3>2. CASE u = t
      BY <1>3, <1>6, <3>1, <3>2, SMT
    <3>3. CASE u # t
      BY <1>4, <2>1, <3>3 DEF LogInv, JobsCurrent
    <3> QED BY <3>2, <3>3
  <2> QED BY <2>1 DEF LogInv, JobsCurrent
<1>13. ASSUME NEW u \in Tables, u # t, MayLand(u) PROVE MayLand(u)'
  BY <1>1, <1>2, <1>8, <1>13 DEF MayLand
<1>14. ASSUME NEW p \in logPuts
       PROVE  /\ p.version <= Len(log'[p.table]) + 1
              /\ p.version = Len(log'[p.table]) + 1 =>
                   MayLand(p.table)' /\ p.entry = AppendEntry(b, p.table)
  <2>1. p.table \in Tables /\ p.version \in Nat
    BY DEF TypeOK, LogPutSet
  <2>2. /\ p.version <= Len(log[p.table]) + 1
        /\ p.version = Len(log[p.table]) + 1 =>
             MayLand(p.table) /\ p.entry = AppendEntry(b, p.table)
    BY DEF LogInv, PutsCurrent
  <2>3. CASE p.table = t
    BY <1>3, <1>6, <2>1, <2>2, <2>3, SMT
  <2>4. CASE p.table # t
    BY <1>4, <1>13, <2>1, <2>2, <2>4
  <2> QED BY <2>3, <2>4
<1>15. logPuts' \subseteq logPuts => PutsCurrent'
  BY <1>14 DEF PutsCurrent
<1>16. Shown(Blocks)' => \A u \in pending'.batch.tabs : Shown(u)'
  <2>1. CASE t = Blocks
    BY <1>1, <1>2, <1>8, <2>1
  <2>2. CASE t # Blocks
    BY <1>2, <1>8, <2>2 DEF LogInv, StepsCurrent
  <2> QED BY <2>1, <2>2
<1> QED BY <1>1, <1>8, <1>9, <1>11, <1>12, <1>13, <1>15, <1>16

\* What the other tables' progress says stays true when a commit lands.
LEMMA LandedSteps ==
    ASSUME TypeOK, TypeOK', JournalInv, LogInv, NEW t \in Tables, MayLand(t),
           Landed(t), UNCHANGED <<auth, pending, job, installed, pc>>,
           logPuts' \subseteq logPuts, err => err',
           \A u \in Tables : u # t => /\ step'[u] = step[u] /\ at'[u] = at[u]
                                      /\ snap'[u] = snap[u],
           snap'[t] <= Len(log'[t]),
           Committing => StepCurrent(t)'
    PROVE  LogInv'
<1>1. /\ TxnsOrdered' /\ RowsKnown' /\ JobsCurrent' /\ PutsCurrent'
      /\ \A u \in Tables : Shown(u)' <=> u = t \/ Shown(u)
      /\ \A u \in Tables : u # t /\ MayLand(u) => MayLand(u)'
      /\ Shown(Blocks)' => \A u \in pending'.batch.tabs : Shown(u)'
  BY LandedLogs
<1>2. \A u \in Tables : u # t => log'[u] = log[u]
  BY DEF Landed, TypeOK
<1>3. pending.batch.tabs \subseteq Tables
  BY DEF TypeOK, PendingSet, BatchSet
<1>4. ASSUME NEW u \in Tables, u # t, StepCurrent(u) PROVE StepCurrent(u)'
  BY <1>1, <1>2, <1>3, <1>4 DEF StepCurrent
<1>5. StepsCurrent'
  BY <1>1, <1>2, <1>3, <1>4 DEF LogInv, StepsCurrent, Committing
<1> QED BY <1>1, <1>5 DEF LogInv

\* A commit lands while its process waits for it, or after it gave up.
LEMMA LandingStep ==
    ASSUME TypeOK, TypeOK', JournalInv, LogInv,
           \/ \E t \in Tables :
                CommitLanded(t) \/ (CommitUnresolved(t) /\ log' # log)
           \/ \E p \in logPuts : LateCommit(p) /\ log' # log
    PROVE  LogInv'
<1> USE DEF durable, process, maintenance, history
<1>a. ASSUME NEW t \in Tables, Committing, step[t] = "sent",
             at[t] = Len(log[t]) + 1
      PROVE  MayLand(t)
  <2>1. StepCurrent(t)
    BY <1>a DEF LogInv, StepsCurrent
  <2> QED BY <1>a, <2>1 DEF StepCurrent
<1>b. ASSUME NEW t \in Tables, Landed(t)
      PROVE  Len(log'[t]) = Len(log[t]) + 1 /\ Len(log[t]) \in Nat
  <2>1. log[t] \in Seq(EntrySet) /\ Len(log[t]) \in Nat
    BY LogTypes
  <2>2. log'[t] = Append(log[t], AppendEntry(pending.batch, t))
    BY <1>b DEF Landed, TypeOK
  <2> QED BY <2>1, <2>2, SMT
<1>1. ASSUME NEW t \in Tables, CommitLanded(t) PROVE LogInv'
  <2>1. /\ MayLand(t) /\ Landed(t)
        /\ UNCHANGED <<auth, pending, job, installed, pc, logPuts, err, at>>
        /\ step' = [step EXCEPT ![t] = "done"]
        /\ snap' = [snap EXCEPT ![t] = at[t]]
        /\ at[t] = Len(log[t]) + 1
    BY <1>1, <1>a DEF CommitLanded
  <2>2. /\ step'[t] = "done" /\ snap'[t] = Len(log'[t])
        /\ \A u \in Tables : u # t => step'[u] = step[u] /\ snap'[u] = snap[u]
        /\ Len(log'[t]) \in Nat
    BY <1>b, <2>1, SMT DEF TypeOK
  <2>3. Shown(t)'
    BY <2>1, LandedLogs
  <2>4. StepCurrent(t)'
    BY <2>2, <2>3 DEF StepCurrent
  <2> QED BY <2>1, <2>2, <2>4, LandedSteps, SMTT(30)
<1>2. ASSUME NEW t \in Tables, CommitUnresolved(t), log' # log PROVE LogInv'
  <2>1. /\ MayLand(t) /\ Landed(t)
        /\ UNCHANGED <<auth, pending, job, installed, pc, logPuts, at, snap>>
        /\ step' = [step EXCEPT ![t] = "failed"] /\ err' = TRUE
    BY <1>2, <1>a DEF CommitUnresolved
  <2>2. /\ step'[t] = "failed"
        /\ \A u \in Tables : u # t => step'[u] = step[u]
    BY <2>1 DEF TypeOK
  <2>3. snap'[t] <= Len(log'[t])
    BY <1>b, <2>1, SMT DEF LogInv, StepsCurrent, TypeOK
  <2>4. StepCurrent(t)'
    BY <2>1, <2>2 DEF StepCurrent
  <2> QED BY <2>1, <2>2, <2>3, <2>4, LandedSteps
<1>3. ASSUME NEW p \in logPuts, LateCommit(p), log' # log PROVE LogInv'
  <2> DEFINE t == p.table
  <2>1. /\ t \in Tables /\ p.version = Len(log[t]) + 1
        /\ log' = [log EXCEPT ![t] = Append(@, p.entry)]
        /\ UNCHANGED <<auth, pending, job, installed, pc, err, at, snap, step>>
        /\ logPuts' \subseteq logPuts
    BY <1>3 DEF LateCommit, TypeOK, LogPutSet
  <2>2. MayLand(t) /\ Landed(t)
    BY <2>1 DEF LogInv, PutsCurrent, Landed
  <2>3. /\ Len(log'[t]) = Len(log[t]) + 1 /\ Len(log[t]) \in Nat
        /\ \A i \in Versions(log[t]) : log'[t][i] = log[t][i]
    <3>1. log[t] \in Seq(EntrySet) /\ log'[t] = Append(log[t], p.entry)
      BY <2>1 DEF TypeOK
    <3>2. p.entry \in EntrySet
      BY DEF TypeOK, LogPutSet
    <3>3. Extends(log'[t], log[t], p.entry)
      BY <3>1, <3>2, AppendEntries
    <3> HIDE DEF t
    <3> QED BY <3>3 DEF Extends
  <2> HIDE DEF t
  <2>4. snap[t] <= Len(log[t]) /\ snap[t] \in Nat /\ at[t] \in Nat
    BY <2>1 DEF LogInv, StepsCurrent, TypeOK
  <2>5. /\ \A u \in Tables : Shown(u)' <=> u = t \/ Shown(u)
        /\ pending.batch.tabs \subseteq Tables
        /\ t = Blocks => \A u \in pending.batch.tabs \ {t} : Shown(u)
    BY <2>1, <2>2, LandedLogs, ZenonT(30) DEF MayLand, TypeOK, PendingSet, BatchSet
  <2>6. ASSUME Committing PROVE StepCurrent(t)'
    <3>1. StepCurrent(t)
      BY <2>1, <2>6 DEF LogInv, StepsCurrent
    <3>2. \A i \in 1..snap[t] : log'[t][i] = log[t][i]
      BY <2>3, <2>4, SMT DEF Versions
    <3>3. at[t] <= Len(log[t]) + 1 =>
            at[t] <= Len(log'[t]) + 1 /\ at[t] # Len(log'[t]) + 1
      BY <2>3, <2>4, PastEnd
    <3> QED BY <2>1, <2>5, <3>1, <3>2, <3>3, ZenonT(30) DEF StepCurrent
  <2>7. snap'[t] <= Len(log'[t])
    BY <2>1, <2>3, <2>4, SMT
  <2> QED BY <2>1, <2>2, <2>6, <2>7, LandedSteps
<1> QED BY <1>1, <1>2, <1>3

\* An entry without the stream's `txn` shows nothing of the transaction.
LEMMA MaintenanceShows ==
    ASSUME TypeOK, JournalInv, NEW t \in Tables, NEW e \in EntrySet, e.txn = 0,
           log' = [log EXCEPT ![t] = Append(@, e)], UNCHANGED <<auth, pending>>
    PROVE  \A u \in Tables : Shown(u)' <=> Shown(u)
<1>1. /\ log'[t] = Append(log[t], e) /\ log[t] \in Seq(EntrySet)
      /\ \A u \in Tables : u # t => log'[u] = log[u]
  BY DEF TypeOK
<1>2. Extends(log'[t], log[t], e)
  BY <1>1, AppendEntries
<1>3. /\ Behind' <=> Behind
      /\ Behind => pending.batch.last # 0
  BY BehindFacts DEF Behind, Id
<1>4. Shown(t)' <=> Shown(t)
  BY <1>2, <1>3 DEF Shown, Extends
<1>5. \A u \in Tables : u # t => (Shown(u)' <=> Shown(u))
  BY <1>1, <1>3 DEF Shown
<1> QED BY <1>4, <1>5

\* An entry of maintenance that keeps a table's rows keeps the invariant.
LEMMA MaintenanceLogs ==
    ASSUME TypeOK, TypeOK', JournalInv, LogInv, NEW t \in Tables,
           NEW e \in EntrySet, e.txn = 0,
           log' = [log EXCEPT ![t] = Append(@, e)],
           UNCHANGED <<auth, pending, installed, logPuts, pc, step, at, err>>,
           \/ snap' = snap
           \/ pc = "opening" /\ \A u \in Tables : snap'[u] <= Len(log'[u]),
           \A u \in Tables : job'[u] \in {job[u], NoJob},
           Rows(log'[t]) = Rows(log[t]),
           \A f, g \in Active(log'[t]) : f.rows \cap g.rows # {} => f = g
    PROVE  LogInv'
<1> DEFINE l == log[t]
<1>1. /\ log'[t] = Append(l, e) /\ l \in Seq(EntrySet)
      /\ \A u \in Tables : u # t => log'[u] = log[u]
  BY SMT DEF TypeOK
<1>2. /\ Len(log'[t]) = Len(l) + 1 /\ log'[t][Len(l) + 1] = e /\ Len(l) \in Nat
      /\ \A i \in Versions(l) : log'[t][i] = l[i]
      /\ Versions(log'[t]) = Versions(l) \cup {Len(l) + 1}
      /\ \A i \in Versions(l) : i < Len(l) + 1 /\ i \in Nat
  <2>1. Extends(Append(l, e), l, e)
    BY <1>1, AppendEntries
  <2>2. Extends(log'[t], l, e)
    BY <1>1, <2>1
  <2> HIDE DEF l
  <2> QED BY <2>2 DEF Extends
<1>3. Behind' <=> Behind
  BY DEF Behind, Id
<1>4. \A u \in Tables : Shown(u)' <=> Shown(u)
  BY MaintenanceShows
<1>5. pending.batch.tabs \subseteq Tables
  BY DEF TypeOK, PendingSet, BatchSet
<1>6. \A u \in Tables : MayLand(u)' <=> MayLand(u)
  BY <1>3, <1>4, <1>5 DEF MayLand
<1>7. TxnsOrdered'
  <2>1. ASSUME NEW u \in Tables, NEW i \in Versions(log'[u])
        PROVE  \/ log'[u][i].txn <= auth.ordinal \/ log'[u][i].txn = 0
               \/ /\ Behind /\ u \in pending.batch.tabs
                  /\ log'[u][i].txn = pending.batch.last
    <3>1. CASE u = t /\ i = Len(l) + 1
      BY <1>2, <3>1
    <3>2. CASE i \in Versions(log[u])
      <4>1. log'[u][i] = log[u][i]
        BY <1>1, <1>2, <3>2
      <4> QED BY <3>2, <4>1, ZenonT(30) DEF LogInv, TxnsOrdered
    <3> QED BY <1>1, <1>2, <3>1, <3>2
  <2>2. ASSUME NEW u \in Tables, NEW i \in Versions(log'[u]),
               NEW j \in Versions(log'[u]), i < j,
               log'[u][i].txn # 0, log'[u][j].txn # 0
        PROVE  log'[u][i].txn < log'[u][j].txn
    <3>1. i \in Versions(log[u]) /\ j \in Versions(log[u])
      BY <1>1, <1>2, <2>2
    <3>2. log'[u][i] = log[u][i] /\ log'[u][j] = log[u][j]
      BY <1>1, <1>2, <3>1, ZenonT(30)
    <3> QED BY <2>2, <3>1, <3>2 DEF LogInv, TxnsOrdered
  <2> QED BY <1>3, <2>1, <2>2 DEF TxnsOrdered
<1>8. RowsKnown'
  <2>1. ASSUME NEW u \in Tables
        PROVE  /\ Rows(log'[u]) = Rows(log[u])
               /\ \A f, g \in Active(log'[u]) : f.rows \cap g.rows # {} => f = g
               /\ Acknowledged(u)' = Acknowledged(u)
               /\ InCommit(u)' = InCommit(u)
    BY <1>1, <1>3, ZenonT(30) DEF LogInv, RowsKnown, Acknowledged, InCommit
  <2>2. ASSUME NEW u \in Tables
        PROVE  {b \in InCommit(u)' : Shown(u)'} = {b \in InCommit(u) : Shown(u)}
    BY <1>4, <2>1
  <2> QED BY <2>1, <2>2 DEF LogInv, RowsKnown
<1>9. PutsCurrent'
  <2>1. \A p \in logPuts : p.table \in Tables /\ p.version \in Nat
    BY DEF TypeOK, LogPutSet
  <2>2. ASSUME NEW p \in logPuts
        PROVE  /\ p.version <= Len(log'[p.table]) + 1
               /\ p.version = Len(log'[p.table]) + 1 =>
                    /\ MayLand(p.table)
                    /\ p.entry = AppendEntry(pending.batch, p.table)
    <3>1. CASE p.table = t
      <4>1. p.version <= Len(log[t]) + 1
        BY <3>1, ZenonT(30) DEF LogInv, PutsCurrent
      <4>2. Len(log[t]) \in Nat /\ Len(log'[t]) = Len(log[t]) + 1
        BY <1>2
      <4>3. /\ p.version <= Len(log'[t]) + 1
            /\ p.version # Len(log'[t]) + 1
        <5>1. p.version \in Nat
          BY <2>1
        <5> QED BY <4>1, <4>2, <5>1, PastEnd
      <4> QED BY <3>1, <4>3
    <3>2. CASE p.table # t
      BY <1>1, <2>1, <3>2 DEF LogInv, PutsCurrent
    <3> QED BY <3>1, <3>2
  <2> QED BY <1>6, <2>1, <2>2 DEF PutsCurrent
<1>10. JobsCurrent'
  <2>1. ASSUME NEW u \in Tables, job'[u] # NoJob
        PROVE  /\ job'[u] = job[u] /\ job[u].base <= Len(log'[u])
               /\ job[u].base = Len(log'[u]) =>
                    job[u].src \subseteq Active(log'[u])
    <3>1. /\ job'[u] = job[u] /\ job[u].base \in Nat
          /\ job[u].base <= Len(log[u])
      BY <2>1, ZenonT(30) DEF LogInv, JobsCurrent, TypeOK, JobSet
    <3>2. CASE u = t
      <4>1. job[u].base <= Len(log[t])
        BY <3>1, <3>2
      <4>2. Len(log[t]) \in Nat /\ Len(log'[t]) = Len(log[t]) + 1
        BY <1>2
      <4>3. job[u].base <= Len(log'[t]) /\ job[u].base # Len(log'[t])
        BY <3>1, <4>1, <4>2, PastEnd
      <4> QED BY <3>1, <3>2, <4>3
    <3>3. CASE u # t
      BY <1>1, <2>1, <3>1, <3>3 DEF LogInv, JobsCurrent
    <3> QED BY <3>1, <3>2, <3>3
  <2> QED BY <2>1 DEF LogInv, JobsCurrent
<1>11. \A u \in Tables : /\ snap[u] <= Len(log[u]) /\ snap[u] \in Nat
                         /\ at[u] \in Nat
                         /\ Len(log[u]) \in Nat /\ Len(log[u]) <= Len(log'[u])
  <2>1. \A u \in Tables : Len(log[u]) \in Nat /\ Len(log[u]) <= Len(log'[u])
    <3> SUFFICES ASSUME NEW u \in Tables
                 PROVE  Len(log[u]) \in Nat /\ Len(log[u]) <= Len(log'[u])
      OBVIOUS
    <3>1. Len(log[u]) \in Nat
      BY LogTypes
    <3>2. CASE u = t
      <4>1. Len(log'[u]) = Len(log[u]) + 1
        BY <1>2, <3>2
      <4> QED BY <3>1, <4>1, PastEnd
    <3>3. CASE u # t
      <4>1. log'[u] = log[u]
        BY <1>1, <3>3
      <4> QED BY <3>1, <4>1, PastEnd
    <3> QED BY <3>2, <3>3
  <2> QED BY <2>1, ZenonT(30) DEF LogInv, StepsCurrent, TypeOK
<1>12. ASSUME NEW u \in Tables, snap' = snap, StepCurrent(u)
       PROVE  StepCurrent(u)'
  <2>1. \A i \in 1..snap[u] : log'[u][i] = log[u][i]
    <3> SUFFICES ASSUME NEW i \in 1..snap[u] PROVE log'[u][i] = log[u][i]
      OBVIOUS
    <3>1. i \in Versions(log[u])
      BY <1>11, Within DEF Versions
    <3>2. CASE u = t
      BY <1>2, <3>1, <3>2
    <3>3. CASE u # t
      BY <1>1, <3>3
    <3> QED BY <3>2, <3>3
  <2>2. /\ at[u] <= Len(log[u]) + 1 => at[u] <= Len(log'[u]) + 1
        /\ at[u] = Len(log'[u]) + 1 /\ at[u] <= Len(log[u]) + 1
              => at[u] = Len(log[u]) + 1
    BY <1>11, SMT
  <2> QED BY <1>4, <1>5, <1>6, <1>12, <2>1, <2>2 DEF StepCurrent
<1>13. \A u \in Tables : snap'[u] <= Len(log'[u])
  BY <1>11, SMT
<1>14. StepsCurrent'
  BY <1>4, <1>5, <1>12, <1>13 DEF LogInv, StepsCurrent, Committing
<1> QED BY <1>7, <1>8, <1>9, <1>10, <1>14, ZenonT(30) DEF LogInv

\* OPTIMIZE swaps files for one with the same rows; VACUUM and the creation of
\* a table change no rows.
LEMMA MaintenanceSteps ==
    ASSUME TypeOK, TypeOK', JournalInv, LogInv, NEW t \in Tables,
           OptimizeCommit(t) \/ LiteVacuum(t) \/ OpenTable(t)
    PROVE  LogInv'
<1> USE DEF durable, process, maintenance, history
<1>1. /\ log[t] \in Seq(EntrySet) /\ Len(log[t]) \in Nat
      /\ \A u \in Tables : snap[u] <= Len(log[u])
      /\ \A f, g \in Active(log[t]) : f.rows \cap g.rows # {} => f = g
  BY LogTypes DEF LogInv, StepsCurrent, RowsKnown
<1>2. CASE OptimizeCommit(t) /\ log' = log
  <2>1. JobsCurrent'
    <3>1. \A u \in Tables : job'[u] \in {job[u], NoJob}
      BY <1>2, SMT DEF OptimizeCommit, TypeOK
    <3> QED BY <1>2, <3>1 DEF LogInv, JobsCurrent
  <2> QED BY <1>2, <2>1, BesideStep DEF OptimizeCommit
<1>3. CASE OptimizeCommit(t) /\ log' # log
  <2> DEFINE e == MaintenanceEntry(job[t].out, job[t].src)
  <2>1. /\ job[t] # NoJob /\ Len(log[t]) = job[t].base
        /\ log' = [log EXCEPT ![t] = Append(@, e)]
        /\ job' = [job EXCEPT ![t] = NoJob]
        /\ UNCHANGED <<auth, pending, installed, logPuts, pc, step, at, err,
                       snap>>
    BY <1>3 DEF OptimizeCommit
  <2>2. e \in EntrySet /\ e.txn = 0 /\ e.add = job[t].out /\ e.rem = job[t].src
    BY MaintenanceType DEF TypeOK, JobSet, MaintenanceEntry
  <2>3. PICK out \in job[t].out :
          /\ job[t].out = {out}
          /\ out.rows = UNION {f.rows : f \in job[t].src}
    BY <2>1 DEF LogInv, JobsCurrent
  <2>4. job[t].src \subseteq Active(log[t])
    BY <2>1 DEF LogInv, JobsCurrent
  <2>5. Active(log'[t]) = (Active(log[t]) \ job[t].src) \cup {out}
    <3>1. log'[t] = Append(log[t], e)
      BY <2>1, ZenonT(30) DEF TypeOK
    <3> HIDE DEF e
    <3> QED BY <1>1, <2>2, <2>3, <3>1, ActiveAppend
  <2> HIDE DEF e
  <2>6. Rows(log'[t]) = Rows(log[t])
    <3> DEFINE F == Active(log[t])
               S == job[t].src
    <3>1. UNION {f.rows : f \in (F \ S) \cup {out}} = UNION {f.rows : f \in F}
      <4>1. S \in SUBSET F /\ out.rows = UNION {f.rows : f \in S}
        BY <2>3, <2>4
      <4> HIDE DEF F, S
      <4> QED BY <4>1, RowsReplaced
    <3> QED BY <2>5, <3>1 DEF Rows
  <2>7. ASSUME NEW f \in Active(log'[t]), NEW g \in Active(log'[t]),
               f.rows \cap g.rows # {}
        PROVE  f = g
    <3>1. ASSUME NEW h \in Active(log[t]) \ job[t].src
          PROVE  h.rows \cap out.rows = {}
      <4>1. ASSUME NEW b \in h.rows \cap out.rows PROVE FALSE
        <5>1. PICK k \in job[t].src : b \in k.rows
          BY <2>3, <4>1
        <5>2. h = k
          BY <1>1, <2>4, <3>1, <4>1, <5>1
        <5> QED BY <3>1, <5>1, <5>2
      <4> QED BY <4>1
    <3>2. CASE f = out /\ g = out
      BY <3>2
    <3>3. CASE f = out /\ g # out
      BY <2>5, <2>7, <3>1, <3>3
    <3>4. CASE f # out /\ g = out
      BY <2>5, <2>7, <3>1, <3>4
    <3>5. CASE f # out /\ g # out
      BY <1>1, <2>5, <2>7, <3>5
    <3> QED BY <3>2, <3>3, <3>4, <3>5
  <2>8. \A u \in Tables : job'[u] \in {job[u], NoJob}
    <3>1. DOMAIN job = Tables
      BY DEF TypeOK
    <3>2. job' = [job EXCEPT ![t] = NoJob]
      BY <2>1
    <3> QED BY <3>1, <3>2, Zenon
  <2> QED BY <2>1, <2>2, <2>6, <2>7, <2>8, MaintenanceLogs
<1> DEFINE e == MaintenanceEntry({}, {})
<1>4. e \in EntrySet /\ e.txn = 0 /\ e.add = {} /\ e.rem = {}
  BY MaintenanceType DEF MaintenanceEntry
<1>5. ASSUME log' = [log EXCEPT ![t] = Append(@, e)]
      PROVE  Rows(log'[t]) = Rows(log[t]) /\ Active(log'[t]) = Active(log[t])
  <2>1. log'[t] = Append(log[t], e)
    BY <1>5 DEF TypeOK
  <2>2. Active(log'[t]) = Active(log[t])
    <3> HIDE DEF e
    <3> QED BY <1>1, <1>4, <2>1, ActiveAppend
  <2> QED BY <2>2 DEF Rows
<1>6. CASE LiteVacuum(t)
  <2>1. /\ log' = [log EXCEPT ![t] = Append(@, e)]
        /\ UNCHANGED <<auth, pending, installed, logPuts, pc, step, at, err,
                       snap, job>>
    BY <1>6 DEF LiteVacuum
  <2> HIDE DEF e
  <2> QED BY <1>1, <1>4, <1>5, <2>1, MaintenanceLogs
<1>7. CASE OpenTable(t)
  <2>1. /\ UNCHANGED <<auth, pending, installed, logPuts, step, at, err, job>>
        /\ pc = "opening" /\ pc' \in {"opening", "failing"}
        /\ snap' = snap \/ snap' = [snap EXCEPT ![t] = Len(log'[t])]
        /\ \/ log' = log
           \/ /\ log[t] = <<>> /\ log' = [log EXCEPT ![t] = <<e>>]
              /\ pc' = pc
    BY <1>7 DEF OpenTable, Refuse
  <2>2. CASE log' = log
    <3>1. \A u \in Tables : snap'[u] <= Len(log'[u])
      <4>1. \A u \in Tables : snap'[u] = snap[u] \/ snap'[u] = Len(log'[u])
        <5>1. DOMAIN snap = Tables
          BY DEF TypeOK
        <5> QED BY <2>1, <5>1, ZenonT(30)
      <4>2. \A u \in Tables : Len(log[u]) \in Nat
        BY LogTypes
      <4> QED BY <1>1, <2>2, <4>1, <4>2, PastEnd
    <3> QED BY <2>1, <2>2, <3>1, SameJournal, NotCommitting, ZenonT(30)
  <2>3. CASE log[t] = <<>> /\ log' = [log EXCEPT ![t] = <<e>>] /\ pc' = pc
    <3>1. <<e>> = Append(log[t], e)
      BY <1>4, <2>3, SMT
    <3>2. log' = [log EXCEPT ![t] = Append(@, e)]
      BY <2>3, <3>1
    <3>3. \A u \in Tables : snap'[u] <= Len(log'[u])
      <4>1. Len(log[t]) = 0 /\ Len(log'[t]) = 1
            /\ \A u \in Tables : u # t => log'[u] = log[u]
        BY <2>3 DEF TypeOK
      <4>2. \A u \in Tables : u # t => snap'[u] = snap[u]
        BY <2>1, ZenonT(30) DEF TypeOK
      <4>3. snap'[t] <= 1
        BY <1>1, <2>1, <4>1, SMT DEF TypeOK
      <4> QED BY <1>1, <4>1, <4>2, <4>3
    <3> HIDE DEF e
    <3> QED BY <1>1, <1>4, <1>5, <2>1, <2>3, <3>2, <3>3, MaintenanceLogs
  <2> QED BY <2>1, <2>2, <2>3
<1> QED BY <1>2, <1>3, <1>6, <1>7

\* OPTIMIZE starts on the current snapshot.
LEMMA OptimizeWriteLogs ==
    ASSUME TypeOK, TypeOK', LogInv, NEW t \in Tables, OptimizeWrite(t)
    PROVE  LogInv'
<1> USE DEF durable, process, maintenance, history
<1>1. PICK src \in SUBSET Active(log[t]) :
        job' = [job EXCEPT ![t] =
          [base |-> Len(log[t]), src |-> src,
           out |-> {[table |-> t, rows |-> UNION {f.rows : f \in src},
                     by |-> made + 1]}]]
  BY DEF OptimizeWrite
<1> DEFINE out == [table |-> t, rows |-> UNION {f.rows : f \in src},
                   by |-> made + 1]
<1>2. UNCHANGED <<auth, pending, log, logPuts, installed, process>>
  BY DEF OptimizeWrite
<1>3. /\ job'[t] = [base |-> Len(log[t]), src |-> src, out |-> {out}]
      /\ \A u \in Tables : u # t => job'[u] = job[u]
  BY <1>1, ZenonT(30) DEF TypeOK
<1>4. out.rows = UNION {f.rows : f \in src}
  OBVIOUS
<1> HIDE DEF out
<1>5. /\ job'[t].base = Len(log[t]) /\ job'[t].src = src /\ job'[t].out = {out}
      /\ Len(log[t]) \in Nat
  <2>1. Len(log[t]) \in Nat
    BY LogTypes
  <2>2. job'[t] = [base |-> Len(log[t]), src |-> src, out |-> {out}]
    BY <1>3
  <2>3. job'[t].base = Len(log[t]) /\ job'[t].src = src /\ job'[t].out = {out}
    BY <2>2, SMT
  <2> QED BY <2>1, <2>3
<1>6. JobsCurrent'
  <2>1. ASSUME NEW u \in Tables, job'[u] # NoJob
        PROVE  /\ job'[u].base <= Len(log[u])
               /\ job'[u].base = Len(log[u]) => job'[u].src \subseteq Active(log[u])
               /\ \E o \in job'[u].out :
                    /\ job'[u].out = {o}
                    /\ o.rows = UNION {f.rows : f \in job'[u].src}
    <3>1. CASE u = t
      BY <1>4, <1>5, <3>1, SMT
    <3>2. CASE u # t
      BY <1>3, <2>1, <3>2 DEF LogInv, JobsCurrent
    <3> QED BY <3>1, <3>2
  <2> QED BY <1>2, <2>1 DEF JobsCurrent
<1> QED BY <1>2, <1>6, BesideStep

-----------------------------------------------------------------------------
(* The theorems.                                                           *)

\* LogInv is preserved by every step.
LEMMA LogStep ==
    ASSUME TypeOK, TypeOK', JournalInv, JournalInv', LogInv, [Next]_vars
    PROVE  LogInv'
<1> USE DEF durable, process, maintenance, history
<1>1. CASE ProcessStep
  <2>1. ASSUME NEW t \in Tables, OpenTable(t) PROVE LogInv'
    BY <2>1, MaintenanceSteps
  <2>2. CASE CheckProgress
    BY <2>2, CheckProgressLogs
  <2>3. CASE MarkCommitted
    BY <2>3, MarkCommittedLogs
  <2>4. ASSUME NEW t \in Tables, SendCommit(t) PROVE LogInv'
    BY <2>4, SendCommitLogs
  <2>5. ASSUME NEW t \in Tables, CommitLanded(t) PROVE LogInv'
    <3>1. \E u \in Tables :
            CommitLanded(u) \/ (CommitUnresolved(u) /\ log' # log)
      BY <2>5
    <3> QED BY <3>1, LandingStep
  <2>6. ASSUME NEW t \in Tables, CommitRefused(t) PROVE LogInv'
    BY <2>6, CommitRefusedLogs
  <2>7. CASE CommitsDone \/ Drained
    BY <2>7, CommitEndLogs
  <2>8. CASE Advance
    BY <2>8, AdvanceLogs
  <2>9. CASE \/ Initialize \/ RollbackDone \/ ReconcileMirror \/ Clear
             \/ \E t \in Tables :
                  \/ SendDelete(t) \/ DeleteDone(t) \/ SendPart(t)
                  \/ PartPublished(t)
             \/ \E r \in SUBSET Tables : RecordReceipts(r)
    BY <2>9, QuietStep
  <2> QED
    BY <1>1, <2>1, <2>2, <2>3, <2>4, <2>5, <2>6, <2>7, <2>8, <2>9
    DEF ProcessStep
<1>2. CASE FaultStep
  BY <1>2, QuietStep, CommitEndLogs, CrashLogs, UnresolvedLogs, LandingStep
  DEF FaultStep
<1>3. ASSUME NEW o \in partOps, LateOp(o) PROVE LogInv'
  <2>1. UNCHANGED <<auth, pending, log, logPuts, installed, process, job>>
    BY <1>3 DEF LateOp
  <2> QED BY <2>1, BesideStep DEF LogInv, JobsCurrent
<1>4. ASSUME NEW p \in logPuts, LateCommit(p) PROVE LogInv'
  <2>1. CASE log' = log
    <3>1. /\ UNCHANGED <<auth, pending, log, job, installed, process>>
          /\ logPuts' \subseteq logPuts
      BY <1>4, <2>1 DEF LateCommit
    <3>2. /\ \A u \in Tables : Shown(u)' <=> Shown(u)
          /\ \A u \in Tables : MayLand(u)' <=> MayLand(u)
          /\ PutsCurrent' /\ (StepsCurrent' => LogInv')
      BY <3>1, SameJournal
    <3>3. pending.batch.tabs \subseteq Tables
      BY DEF TypeOK, PendingSet, BatchSet
    <3>4. StepsCurrent'
      BY <3>1, <3>2, <3>3 DEF LogInv, StepsCurrent, StepCurrent, Committing
    <3> QED BY <3>2, <3>4
  <2> QED BY <1>4, <2>1, LandingStep
<1>5. CASE MaintenanceStep
  <2>1. ASSUME NEW t \in Tables, FullVacuumRun(t) PROVE LogInv'
    <3>1. UNCHANGED <<auth, pending, log, logPuts, installed, process, job>>
      BY <2>1 DEF FullVacuumRun
    <3> QED BY <3>1, BesideStep DEF LogInv, JobsCurrent
  <2> QED BY <1>5, <2>1, MaintenanceSteps, OptimizeWriteLogs
          DEF MaintenanceStep
<1>6. CASE OperatorRelease \/ UNCHANGED vars
  <2>1. UNCHANGED <<auth, pending, log, logPuts, installed, process, job>>
    BY <1>6 DEF OperatorRelease, vars
  <2> QED BY <2>1, BesideStep DEF LogInv, JobsCurrent
<1> QED
  BY <1>1, <1>2, <1>3, <1>4, <1>5, <1>6, QuietStep DEF Next, StoreStep

\* LogInv holds in every state: what each log shows is what was acknowledged
\* and, of the transaction in commit, what has landed; and a request that can
\* still land would be that transaction's first entry in its log.
THEOREM LogSafe == Spec => []LogInv
<1>1. Init => LogInv
  <2> SUFFICES ASSUME Init PROVE LogInv
    OBVIOUS
  <2>1. /\ \A t \in Tables : log[t] = <<>> /\ Len(log[t]) = 0
        /\ Versions(<<>>) = {} /\ ~Behind /\ installed = {} /\ logPuts = {}
        /\ \A t \in Tables : job[t] = NoJob /\ snap[t] = 0
        /\ pc = "down"
    BY SMT DEF Init, Behind, NoPending, Versions, Never
  <2>2. \A t \in Tables : ~Shown(t)
    BY <2>1 DEF Shown
  <2>3. Active(<<>>) = {} /\ Rows(<<>>) = {}
    BY <2>1 DEF Active, Rows
  <2>4. TxnsOrdered /\ PutsCurrent /\ JobsCurrent
    BY <2>1 DEF TxnsOrdered, PutsCurrent, JobsCurrent
  <2>5. RowsKnown
    BY <2>1, <2>2, <2>3 DEF RowsKnown, Acknowledged
  <2>6. StepsCurrent
    BY <2>1, <2>2, SMT DEF StepsCurrent, Committing
  <2> QED BY <2>4, <2>5, <2>6 DEF LogInv
<1>2. TypeOK /\ TypeOK' /\ JournalInv /\ JournalInv' /\ LogInv /\ [Next]_vars
        => LogInv'
  BY LogStep
<1> QED BY <1>1, <1>2, TypeCorrect, JournalSafe, PTL DEF Spec

\* Exactly once: whatever crashed, was resent, landed late or was compacted,
\* each acknowledged batch is in one active file of each of its tables, and
\* nothing else is visible but the Committed transaction.
THEOREM ExactlyOnceSafe == Spec => []ExactlyOnce
<1>1. LogInv => ExactlyOnce
  BY DEF LogInv, RowsKnown, ExactlyOnce
<1> QED BY <1>1, LogSafe, PTL

\* What `blocks` shows, every other table of the batch shows: `commit_all`
\* commits LAST_TABLE alone and last, in a flush and in a roll-forward.
THEOREM BlocksLastSafe == Spec => []BlocksLast
<1>1. TypeOK /\ JournalInv /\ LogInv => BlocksLast
  <2> SUFFICES ASSUME TypeOK, LogInv, NEW b \in Rows(log[Blocks]),
                      NEW t \in b.tabs
               PROVE  b \in Rows(log[t])
    BY DEF BlocksLast
  <2>1. \A u \in Tables :
          Rows(log[u]) = Acknowledged(u) \cup {c \in InCommit(u) : Shown(u)}
    BY DEF LogInv, RowsKnown
  <2>2. CASE b \in Acknowledged(Blocks)
    BY <2>1, <2>2 DEF Acknowledged, TypeOK, BatchSet
  <2>3. CASE b \in InCommit(Blocks) /\ Shown(Blocks)
    <3>1. b = pending.batch /\ Behind /\ t \in Tables
      BY <2>3 DEF InCommit, TypeOK, PendingSet, BatchSet
    <3>2. Shown(t)
      BY <2>3, <3>1 DEF LogInv, StepsCurrent
    <3> QED BY <2>1, <3>1, <3>2 DEF InCommit
  <2> QED BY <2>1, <2>2, <2>3
<1> QED BY <1>1, TypeCorrect, JournalSafe, LogSafe, PTL

\* The authority follows the tables: a flush or a roll-forward advances it only
\* when every table of the transaction shows it.
THEOREM AuthoritySafe == Spec => AuthorityFollowsTables
<1> DEFINE Follows ==
        auth' # auth /\ auth # NoCheckpoint =>
            \/ /\ pending.phase = "Committed" /\ auth' = Target(pending)
               /\ \A t \in pending.batch.tabs : pending.batch \in Rows(log[t])
            \/ pending = NoPending /\ auth'.ordinal = auth.ordinal
<1>1. TypeOK /\ JournalInv /\ LogInv /\ [Next]_vars => [Follows]_vars
  <2> SUFFICES ASSUME TypeOK, JournalInv, LogInv, Next, auth' # auth,
                      auth # NoCheckpoint
               PROVE  Follows
    OBVIOUS
  <2> USE DEF durable, process, maintenance, history
  <2>1. CASE Advance
    <3>1. Behind /\ pending.batch.tabs \subseteq Tables
      BY <2>1, CommittingBehind, BehindFacts DEF Advance
    <3>2. ASSUME NEW t \in pending.batch.tabs PROVE pending.batch \in Rows(log[t])
      <4>1. Shown(t)
        BY <2>1 DEF Advance, LogInv, StepsCurrent
      <4> QED BY <3>1, <4>1, SMT DEF LogInv, RowsKnown, InCommit
    <3> QED BY <2>1, <3>1, <3>2 DEF Advance, Behind
  <2>2. ASSUME NEW stop \in Stops, CompleteRequest(stop) PROVE Follows
    BY <2>2 DEF CompleteRequest, JournalInv, ProcessKnows
  <2>3. ProcessStep => Advance
    BY DEF ProcessStep, Initialize, OpenTable, CheckProgress, SendDelete,
       DeleteDone, RollbackDone, RecordReceipts, SendPart, PartPublished,
       MarkCommitted, SendCommit, CommitLanded, CommitRefused, CommitsDone,
       ReconcileMirror, Clear, Drained
  <2>4. ~FaultStep
    BY DEF FaultStep, DeleteUnresolved, PartRejected, PartUnresolved,
       CommitUnresolved, Fail, Crash
  <2>5. ~StoreStep /\ ~MaintenanceStep
    BY DEF StoreStep, LateOp, LateCommit, MaintenanceStep, OptimizeWrite,
       OptimizeCommit, LiteVacuum, FullVacuumRun
  <2>6. /\ ~Acquire /\ ~Finish /\ ~OperatorRelease
        /\ ~\E b \in Batches(auth) : Begin(b)
    BY DEF Acquire, Finish, OperatorRelease, Begin
  <2> QED BY <2>1, <2>2, <2>3, <2>4, <2>5, <2>6 DEF Next
<1> QED
  BY <1>1, TypeCorrect, JournalSafe, LogSafe, PTL
  DEF Spec, AuthorityFollowsTables

-----------------------------------------------------------------------------
(* The protocol implements AtomicIngest.                                   *)

\* The position an observer sees, and the batch that is decided.
Position == IF auth = NoCheckpoint THEN 0 ELSE auth.ordinal
Decided == IF Behind THEN pending.batch ELSE NoBatch
View == <<Position, Decided, [t \in Tables |-> Rows(log[t])]>>

\* A step that changes neither logs nor decision shows nothing.
LEMMA SilentStep ==
    ASSUME Position' = Position, Behind' <=> Behind,
           Behind => pending'.batch = pending.batch,
           \A t \in Tables : Rows(log[t])' = Rows(log[t])
    PROVE  View' = View
<1>1. Decided' = Decided
  BY DEF Decided
<1>2. [t \in Tables |-> Rows(log[t])]' = [t \in Tables |-> Rows(log[t])]
  OBVIOUS
<1> QED BY <1>1, <1>2 DEF View

\* Maintenance and the creation of a table show nothing.
LEMMA MaintenanceSilent ==
    ASSUME TypeOK, JournalInv, LogInv, LogInv', NEW t \in Tables,
           OptimizeCommit(t) \/ LiteVacuum(t) \/ OpenTable(t)
    PROVE  View' = View
<1> USE DEF durable, process, maintenance, history
<1>1. UNCHANGED <<auth, pending, installed>>
  BY DEF OptimizeCommit, LiteVacuum, OpenTable
<1>2. (Behind' <=> Behind) /\ Position' = Position
  BY <1>1 DEF Behind, Id, Position
<1>3. \A u \in Tables : Shown(u)' <=> Shown(u)
  <2>1. CASE log' = log
    BY <1>1, <1>2, <2>1 DEF Shown
  <2>2. CASE log' # log
    <3>1. PICK e \in EntrySet : /\ e.txn = 0
                                /\ log' = [log EXCEPT ![t] = Append(@, e)]
      <4>1. /\ MaintenanceEntry(job[t].out, job[t].src) \in EntrySet
            /\ MaintenanceEntry({}, {}) \in EntrySet
            /\ MaintenanceEntry(job[t].out, job[t].src).txn = 0
            /\ MaintenanceEntry({}, {}).txn = 0
        BY MaintenanceType DEF TypeOK, JobSet, MaintenanceEntry
      <4>2. CASE OptimizeCommit(t)
        BY <2>2, <4>1, <4>2 DEF OptimizeCommit
      <4>3. CASE LiteVacuum(t)
        BY <4>1, <4>3 DEF LiteVacuum
      <4>4. CASE OpenTable(t)
        <5>1. /\ log[t] = <<>>
              /\ log' = [log EXCEPT ![t] = <<MaintenanceEntry({}, {})>>]
          BY <2>2, <4>4 DEF OpenTable
        <5>2. <<MaintenanceEntry({}, {})>> = Append(log[t], MaintenanceEntry({}, {}))
          BY <4>1, <5>1, SMT
        <5> QED BY <4>1, <5>1, <5>2
      <4> QED BY <4>2, <4>3, <4>4
    <3> QED BY <1>1, <3>1, MaintenanceShows
  <2> QED BY <2>1, <2>2
<1>4. ASSUME NEW u \in Tables PROVE Rows(log[u])' = Rows(log[u])
  <2>1. Acknowledged(u)' = Acknowledged(u)
    BY <1>1 DEF Acknowledged
  <2>2. {b \in InCommit(u) : Shown(u)}' = {b \in InCommit(u) : Shown(u)}
    BY <1>1, <1>2, <1>3 DEF InCommit
  <2> QED BY <2>1, <2>2 DEF LogInv, RowsKnown
<1> QED BY <1>1, <1>2, <1>4, SilentStep

\* A commit that lands is the abstract Show.
LEMMA LandedShows ==
    ASSUME TypeOK, TypeOK', JournalInv, LogInv, NEW t \in Tables, MayLand(t),
           Landed(t), UNCHANGED <<auth, pending, job, installed>>
    PROVE  Atomic!Show(t)
<1> DEFINE b == pending.batch
           visible == [u \in Tables |-> Rows(log[u])]
<1>1. /\ TxnsOrdered' /\ RowsKnown' /\ Behind /\ Behind'
      /\ Shown(t)'
  BY LandedLogs
<1>2. /\ b # NoBatch /\ b \notin installed /\ b.tabs \subseteq Tables
  BY <1>1, BehindFacts
<1>3. /\ t \in b.tabs /\ ~Shown(t)
      /\ t = Blocks => \A u \in b.tabs \ {t} : Shown(u)
  BY DEF MayLand
<1>4. \A u \in Tables :
        Rows(log[u]) = Acknowledged(u) \cup {c \in InCommit(u) : Shown(u)}
  BY DEF LogInv, RowsKnown
<1>5. b \notin Rows(log[t])
  BY <1>2, <1>3, <1>4 DEF Acknowledged
<1>6. t = Blocks => \A u \in b.tabs \ {t} : b \in Rows(log[u])
  BY <1>1, <1>2, <1>3, <1>4 DEF InCommit
<1>7. Rows(log'[t]) = Rows(log[t]) \cup {b}
  <2>1. Rows(log'[t]) = Acknowledged(t)' \cup {c \in InCommit(t) : Shown(t)}'
    BY <1>1 DEF RowsKnown
  <2>2. Acknowledged(t)' = Acknowledged(t)
    BY DEF Acknowledged
  <2>3. {c \in InCommit(t) : Shown(t)}' = {b}
    BY <1>1, <1>3 DEF InCommit
  <2>4. Rows(log[t]) = Acknowledged(t)
    BY <1>3, <1>4
  <2> QED BY <2>1, <2>2, <2>3, <2>4
<1>8. \A u \in Tables : u # t => log'[u] = log[u]
  BY DEF Landed, TypeOK
<1>9. [u \in Tables |-> Rows(log[u])]' = [visible EXCEPT ![t] = @ \cup {b}]
  BY <1>7, <1>8
<1>10. Decided = b /\ Decided' = b /\ Position' = Position
  BY <1>1 DEF Decided, Position
<1> QED BY <1>2, <1>3, <1>5, <1>6, <1>9, <1>10 DEF Atomic!Show, Decided, Position

\* The durable Committed phase is the abstract Decide.
LEMMA MarkCommittedDecides ==
    ASSUME TypeOK, TypeOK', JournalInv, JournalInv', MarkCommitted
    PROVE  View' = View \/ \E b \in BatchSet : Atomic!Decide(b)
<1> USE DEF durable, process, maintenance, history
<1>1. /\ UNCHANGED <<auth, log>>
      /\ ~Behind
  BY DEF MarkCommitted, JournalInv, ProcessKnows, Behind
<1>2. /\ Position' = Position /\ \A t \in Tables : Rows(log[t])' = Rows(log[t])
  BY <1>1 DEF Position
<1>3. CASE ~Behind'
  BY <1>1, <1>2, <1>3, SilentStep
<1>4. CASE Behind'
  <2> DEFINE b == pending'.batch
  <2>1. /\ pending' # NoPending /\ auth' = pending'.pred /\ auth # NoCheckpoint
    <3>1. pc' = "commit" /\ pending'.phase = "Committed"
      BY <1>1, <1>4 DEF MarkCommitted, Refuse, Behind, Id
    <3>2. ProcessKnows /\ ProcessKnows'
      BY DEF JournalInv
    <3>3. auth' = pending'.pred /\ auth # NoCheckpoint
      BY <1>1, <3>1, <3>2 DEF ProcessKnows
    <3>4. NoPending.phase # "Committed"
      BY DEF NoPending
    <3> QED BY <3>1, <3>3, <3>4
  <2>2. /\ b.first = auth.ordinal + 1 /\ b.first <= b.last /\ auth.ordinal >= 0
    BY <1>1, <2>1 DEF JournalInv, JournalContinues
  <2>3. b \in BatchSet /\ b.first \in Nat /\ b.last \in Nat /\ auth.ordinal \in Int
    <3>1. pending' \in PendingSet /\ auth \in Checkpoints
      BY DEF TypeOK
    <3>2. b \in BatchSet
      BY <3>1 DEF PendingSet
    <3> QED BY <3>1, <3>2, SMT DEF BatchSet, Checkpoints
  <2>4. b # NoBatch
    BY <2>2, <2>3, SMT DEF NoBatch
  <2>5. Decided = NoBatch /\ Decided' = b /\ Position = auth.ordinal
    BY <1>1, <1>4, <2>1 DEF Decided, Position
  <2>6. [t \in Tables |-> Rows(log[t])]' = [t \in Tables |-> Rows(log[t])]
    BY <1>1
  <2> HIDE DEF b
  <2>7. Atomic!Decide(b)
    BY <1>2, <2>2, <2>3, <2>4, <2>5, <2>6
    DEF Atomic!Decide, Decided, Position
  <2> QED BY <2>3, <2>7
<1> QED BY <1>3, <1>4

\* The advance of the authority is the abstract Acknowledge.
LEMMA AdvanceAcknowledges ==
    ASSUME TypeOK, JournalInv, LogInv, Advance
    PROVE  Atomic!Acknowledge
<1> USE DEF durable, process, maintenance, history
<1>1. /\ UNCHANGED <<pending, log>> /\ auth' = Target(pending)
  BY DEF Advance
<1>2. Behind
  BY CommittingBehind DEF Advance
<1>3. /\ pending.batch.tabs \subseteq Tables /\ pending # NoPending
      /\ pending.batch.last \in Nat /\ pending.batch # NoBatch
  BY <1>2, BehindFacts
<1>4. ~Behind'
  BY <1>1, <1>3, TargetDiffers DEF Behind, JournalInv
<1>5. auth'.ordinal = pending.batch.last /\ auth' # NoCheckpoint
  BY <1>1, <1>3, SMT DEF Target, NoCheckpoint
<1>6. \A t \in pending.batch.tabs : pending.batch \in Rows(log[t])
  <2>1. \A t \in pending.batch.tabs : Shown(t)
    BY DEF Advance, LogInv, StepsCurrent
  <2> QED BY <1>2, <1>3, <2>1 DEF LogInv, RowsKnown, InCommit
<1>7. /\ Decided = pending.batch /\ Decided' = NoBatch
      /\ Position' = pending.batch.last
  BY <1>2, <1>4, <1>5 DEF Decided, Position
<1>8. [t \in Tables |-> Rows(log[t])]' = [t \in Tables |-> Rows(log[t])]
  BY <1>1
<1> QED BY <1>3, <1>6, <1>7, <1>8 DEF Atomic!Acknowledge, Decided, Position

\* Every step of the protocol is a step of AtomicIngest or shows nothing.
LEMMA AtomicStep ==
    ASSUME TypeOK, TypeOK', JournalInv, JournalInv', LogInv, LogInv',
           [Next]_vars
    PROVE  Atomic!Next \/ View' = View
<1> USE DEF durable, process, maintenance, history
<1>a. ASSUME UNCHANGED <<auth, pending, log>> PROVE View' = View
  <2>1. (Behind' <=> Behind) /\ Position' = Position
    BY <1>a DEF Behind, Id, Position
  <2> QED BY <1>a, <2>1, SilentStep
<1>b. ASSUME ~Behind, ~Behind', log' = log, Position' = Position
      PROVE  View' = View
  BY <1>b, SilentStep
<1>c. ASSUME NEW t \in Tables, MayLand(t), Landed(t),
             UNCHANGED <<auth, pending, job, installed>>
      PROVE  Atomic!Next
  BY <1>c, LandedShows DEF Atomic!Next
<1>d. ASSUME NEW t \in Tables, Committing, step[t] = "sent",
             at[t] = Len(log[t]) + 1
      PROVE  MayLand(t)
  BY <1>d DEF LogInv, StepsCurrent, StepCurrent
<1>e. ProcessKnows /\ MirrorFollows
  BY DEF JournalInv
<1>1. CASE Initialize
  <2>1. ~Behind /\ ~Behind' /\ Position' = Position /\ log' = log
    BY <1>1, <1>e, SMT DEF Initialize, MirrorFollows, Behind, NoPending, Position,
       Initial, NoCheckpoint
  <2> QED BY <1>b, <2>1
<1>2. ASSUME NEW r \in SUBSET Tables, RecordReceipts(r) PROVE View' = View
  <2>1. ~Behind /\ ~Behind' /\ Position' = Position /\ log' = log
    BY <1>2, <1>e DEF RecordReceipts, ProcessKnows, Behind, TypeOK, PendingSet,
       Position
  <2> QED BY <1>b, <2>1
<1>3. CASE MarkCommitted
  BY <1>3, MarkCommittedDecides DEF Atomic!Next
<1>4. ASSUME NEW t \in Tables, CommitLanded(t) PROVE Atomic!Next
  BY <1>4, <1>c, <1>d DEF CommitLanded
<1>5. CASE Advance
  BY <1>5, AdvanceAcknowledges DEF Atomic!Next
<1>6. CASE Clear
  <2>1. ~Behind
    <3>1. CASE pending.phase = "Writing"
      BY <3>1 DEF Behind
    <3>2. CASE pending.phase = "Committed" /\ auth = Target(pending)
      BY <3>2, TargetDiffers, SMT DEF JournalInv, Behind, NoPending
    <3> QED BY <1>6, <1>e, <3>1, <3>2 DEF Clear, ProcessKnows
  <2>2. ~Behind' /\ Position' = Position /\ log' = log
    BY <1>6 DEF Clear, Behind, NoPending, Position
  <2> QED BY <1>b, <2>1, <2>2
<1>7. ASSUME NEW b \in Batches(auth), Begin(b) PROVE View' = View
  <2>1. ~Behind /\ ~Behind' /\ Position' = Position /\ log' = log
    BY <1>7, <1>e, BeginQuiet DEF Position
  <2> QED BY <1>b, <2>1
<1>8. ASSUME NEW stop \in Stops, CompleteRequest(stop) PROVE View' = View
  <2>1. ~Behind /\ ~Behind' /\ log' = log /\ auth # NoCheckpoint
    BY <1>8, <1>e, CompleteQuiet
  <2>2. auth'.ordinal = auth.ordinal /\ auth' # NoCheckpoint
    <3>1. auth.ordinal \in Int /\ auth.ordinal >= 0
      BY <1>e, <2>1, SMTT(30) DEF MirrorFollows, TypeOK, Checkpoints
    <3> QED BY <1>8, <3>1, SMT DEF CompleteRequest, NoCheckpoint
  <2>3. Position' = Position
    BY <2>1, <2>2 DEF Position
  <2> QED BY <1>b, <2>1, <2>3
<1>9. ASSUME NEW t \in Tables, CommitUnresolved(t) PROVE Atomic!Next \/ View' = View
  <2>1. UNCHANGED <<auth, pending, job, installed>>
    BY <1>9 DEF CommitUnresolved
  <2>2. CASE log' = log
    BY <1>a, <2>1, <2>2
  <2>3. CASE log' # log
    BY <1>9, <1>c, <1>d, <2>1, <2>3 DEF CommitUnresolved
  <2> QED BY <2>2, <2>3
<1>10. ASSUME NEW p \in logPuts, LateCommit(p) PROVE Atomic!Next \/ View' = View
  <2>1. UNCHANGED <<auth, pending, job, installed>> /\ p.table \in Tables
    BY <1>10 DEF LateCommit, TypeOK, LogPutSet
  <2>2. CASE log' = log
    BY <1>a, <2>1, <2>2
  <2>3. CASE log' # log
    <3>1. /\ p.version = Len(log[p.table]) + 1
          /\ log' = [log EXCEPT ![p.table] = Append(@, p.entry)]
      BY <1>10, <2>3 DEF LateCommit
    <3>2. MayLand(p.table) /\ Landed(p.table)
      BY <3>1 DEF LogInv, PutsCurrent, Landed
    <3> QED BY <1>c, <2>1, <3>2
  <2> QED BY <2>2, <2>3
<1>11. ASSUME NEW t \in Tables,
              OpenTable(t) \/ OptimizeCommit(t) \/ LiteVacuum(t)
       PROVE  View' = View
  BY <1>11, MaintenanceSilent
<1>12. CASE \/ Acquire \/ CheckProgress \/ RollbackDone \/ CommitsDone
            \/ ReconcileMirror \/ Drained \/ Finish \/ OperatorRelease
            \/ UNCHANGED vars
  <2>1. UNCHANGED <<auth, pending, log>>
    BY <1>12 DEF Acquire, CheckProgress, RollbackDone, CommitsDone,
       ReconcileMirror, Drained, Finish, OperatorRelease, vars
  <2> QED BY <1>a, <2>1
<1>13. ASSUME NEW t \in Tables,
              \/ SendDelete(t) \/ DeleteDone(t) \/ SendPart(t)
              \/ PartPublished(t) \/ SendCommit(t) \/ CommitRefused(t)
              \/ OptimizeWrite(t) \/ FullVacuumRun(t)
       PROVE  View' = View
  <2>1. UNCHANGED <<auth, pending, log>>
    BY <1>13 DEF SendDelete, DeleteDone, SendPart, PartPublished, SendCommit,
       CommitRefused, OptimizeWrite, FullVacuumRun
  <2> QED BY <1>a, <2>1
<1>14. ASSUME NEW t \in Tables,
              DeleteUnresolved(t) \/ PartRejected(t) \/ PartUnresolved(t)
       PROVE  View' = View
  <2>1. UNCHANGED <<auth, pending, log>>
    BY <1>14 DEF DeleteUnresolved, PartRejected, PartUnresolved
  <2> QED BY <1>a, <2>1
<1>15. CASE Fail \/ Crash
  <2>1. UNCHANGED <<auth, pending, log>>
    BY <1>15 DEF Fail, Crash
  <2> QED BY <1>a, <2>1
<1>16. ASSUME NEW o \in partOps, LateOp(o) PROVE View' = View
  <2>1. UNCHANGED <<auth, pending, log>>
    BY <1>16 DEF LateOp
  <2> QED BY <1>a, <2>1
<1>17. CASE ProcessStep
  BY <1>17, <1>1, <1>2, <1>3, <1>4, <1>5, <1>6, <1>11, <1>12, <1>13
  DEF ProcessStep
<1>18. CASE FaultStep \/ StoreStep \/ MaintenanceStep
  BY <1>18, <1>9, <1>10, <1>11, <1>13, <1>14, <1>15, <1>16
  DEF FaultStep, StoreStep, MaintenanceStep
<1> QED BY <1>7, <1>8, <1>12, <1>17, <1>18 DEF Next

\* The protected transaction implements AtomicIngest: crashes, retries, late
\* requests, rollback, OPTIMIZE and VACUUM do not show; a batch is decided,
\* shown once per table with `blocks` last, and acknowledged.
THEOREM Refinement == Spec => ImplementsAtomic
<1>1. Init => Atomic!Init
  <2> SUFFICES ASSUME Init PROVE Atomic!Init
    OBVIOUS
  <2>1. /\ auth = NoCheckpoint /\ ~Behind
        /\ log = [t \in Tables |-> <<>>]
    BY DEF Init, Behind, NoPending
  <2>2. Versions(<<>>) = {}
    BY SMT DEF Versions
  <2>3. Rows(<<>>) = {}
    BY <2>2 DEF Active, Rows
  <2>4. [t \in Tables |-> Rows(log[t])] = [t \in Tables |-> {}]
    BY <2>1, <2>3
  <2> QED BY <2>1, <2>4 DEF Atomic!Init
<1>2. TypeOK /\ TypeOK' /\ JournalInv /\ JournalInv' /\ LogInv /\ LogInv'
        /\ [Next]_vars => [Atomic!Next]_(Atomic!vars)
  <2>1. View' = View => UNCHANGED Atomic!vars
    BY DEF View, Position, Decided, Atomic!vars
  <2> QED BY <2>1, AtomicStep
<1> QED
  BY <1>1, <1>2, TypeCorrect, JournalSafe, LogSafe, PTL
  DEF Spec, ImplementsAtomic, Atomic!Spec

=============================================================================
