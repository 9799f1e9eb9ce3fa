---------------------------- MODULE AtomicIngest ----------------------------
(***************************************************************************)
(* What protected ingestion promises readers and the stream, without       *)
(* journal, files, logs, crashes or maintenance: a batch is decided, shown *)
(* once by each table it has rows for, by `blocks` after all the others,   *)
(* and then acknowledged; the next batch starts where it ended.            *)
(***************************************************************************)
EXTENDS Integers

CONSTANTS
    Tables,     \* the dataset's tables
    Blocks,     \* the table that shows a batch last
    None,       \* no batch is decided
    Batch       \* the batches: records with first, last and tabs

VARIABLES
    ordinal,    \* the last acknowledged event
    current,    \* the decided batch, or None
    visible     \* the batches each table shows

vars == <<ordinal, current, visible>>

Init ==
    /\ ordinal = 0
    /\ current = None
    /\ visible = [t \in Tables |-> {}]

\* A batch of the events after the acknowledged ones is decided for good.
Decide(b) ==
    /\ current = None
    /\ b # None /\ b.first = ordinal + 1 /\ b.last >= b.first
    /\ current' = b
    /\ UNCHANGED <<ordinal, visible>>

\* One table shows the decided batch; `blocks` waits for the others.
Show(t) ==
    /\ current # None
    /\ t \in current.tabs /\ current \notin visible[t]
    /\ t = Blocks => \A u \in current.tabs \ {t} : current \in visible[u]
    /\ visible' = [visible EXCEPT ![t] = @ \cup {current}]
    /\ UNCHANGED <<ordinal, current>>

\* The stream's position moves once every table shows the batch.
Acknowledge ==
    /\ current # None
    /\ \A t \in current.tabs : current \in visible[t]
    /\ ordinal' = current.last
    /\ current' = None
    /\ UNCHANGED visible

Next ==
    \/ \E b \in Batch : Decide(b)
    \/ \E t \in Tables : Show(t)
    \/ Acknowledge

Spec == Init /\ [][Next]_vars

\* A decided batch is eventually shown everywhere and acknowledged.
FairSpec == Spec /\ WF_vars(Acknowledge) /\ \A t \in Tables : WF_vars(Show(t))
=============================================================================
