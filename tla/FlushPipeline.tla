---------------------------- MODULE FlushPipeline ----------------------------
(* The bounded table work of one flush (ingest/controller/pipeline.rs), with *)
(* its byte budget (writer/protected/budget.rs) and its blocking lane        *)
(* (ingest/controller/lane.rs).  One coordinator admits encoders, receipt    *)
(* writes and publications and then awaits one finished piece of work;       *)
(* encoders, the receipt write and publications run meanwhile.  The first    *)
(* failure stops admission and what has started is drained.                  *)
EXTENDS Integers, Sequences, FiniteSets, SequencesExt, FiniteSetsExt

CONSTANTS
    Parts,         \* planned parts: 1..n, in plan order
    Size,          \* encoded bytes of each part
    Estimate,      \* estimated_part_bytes of each part
    Limit,         \* FlushConcurrency.inflight_bytes
    Step,          \* GROWTH_STEP
    Encoders,      \* FlushConcurrency.encoders
    Publications,  \* FlushConcurrency.publications
    MaxFaults      \* bound: failures of encoders, staging, writes, requests

ASSUME PlanAssumption ==
    /\ IsFiniteSet(Parts) /\ Parts = 1..Cardinality(Parts)
    /\ Size \in [Parts -> Nat \ {0}]
    /\ Estimate \in [Parts -> Nat \ {0}]
ASSUME LimitsAssumption ==
    /\ {Limit, Step, Encoders, Publications} \subseteq Nat \ {0}
    /\ MaxFaults \in Nat

VARIABLES
    turn,       \* the coordinator: encoders, receipts, publications, await
    queue,      \* parts to encode: [part, exclusive]
    stage,      \* where each part is
    held,       \* bytes of each part's Reservation (0: none)
    exclusive,  \* the part whose reservation is exclusive (0: none)
    used,       \* BudgetState.used
    written,    \* bytes an encoder has written
    receipts,   \* parts whose receipt is durable in the pending record
    published,  \* parts whose file is at its final name
    failed,     \* failure.is_some()
    result,     \* what publish_parts returned
    lane,       \* whether staging runs on a BlockingLane (local output)
    faults

vars == <<turn, queue, stage, held, exclusive, used, written, receipts,
          published, failed, result, lane, faults>>
budget == <<held, exclusive, used>>
outside == <<receipts, published, lane>>

\* Stages of started work, and of work that is done and not yet handled.
Running == {"encoding", "staging", "recording", "publishing"}
Finished == {"encoded", "refused", "encode_failed", "stage_done",
             "stage_failed", "recorded", "record_failed", "publish_done",
             "publish_failed"}
Waiting == {"receipts", "publishable"}
In(S) == {p \in Parts : stage[p] \in S}
Encoding == In({"encoding", "encoded", "refused", "encode_failed"})
Recording == In({"recording", "recorded", "record_failed"})
Publishing == In({"publishing", "publish_done", "publish_failed"})

Init ==
    /\ turn = "encoders"
    /\ queue = [i \in 1..Cardinality(Parts) |-> [part |-> i, exclusive |-> FALSE]]
    /\ stage = [p \in Parts |-> "queued"]
    /\ held = [p \in Parts |-> 0]
    /\ exclusive = 0
    /\ used = 0
    /\ written = [p \in Parts |-> 0]
    /\ receipts = {}
    /\ published = {}
    /\ failed = FALSE
    /\ result = "running"
    /\ lane \in BOOLEAN
    /\ faults = 0

(********************************* the budget ******************************)
\* try_reserve
MayReserve(bytes) == exclusive = 0 /\ used + bytes <= Limit

Reserve(p, bytes) ==
    /\ MayReserve(bytes)
    /\ used' = used + bytes
    /\ held' = [held EXCEPT ![p] = bytes]
    /\ UNCHANGED exclusive

\* Fault variant of MayReserveExclusive: the whole budget is taken while others
\* hold some of it.
MayReserveRest == used < Limit

\* try_reserve_exclusive
MayReserveExclusive == used = 0

ReserveExclusive(p) ==
    /\ MayReserveExclusive
    /\ used' = Limit
    /\ held' = [held EXCEPT ![p] = Limit]
    /\ exclusive' = p

Hold(p, total) ==
    /\ used' = used + (total - held[p])
    /\ held' = [held EXCEPT ![p] = total]
    /\ UNCHANGED exclusive

\* grow_to: by a step, else by what is needed; only the exclusive holder may
\* pass the limit.
Target(p, total) == Max({total, held[p] + Step})
Fits(p, total) == p = exclusive \/ used + (total - held[p]) <= Limit
GrowRefused(p, total) == total > held[p] /\ ~Fits(p, total)
Grow(p, total) ==
    \/ /\ total <= held[p]
       /\ UNCHANGED budget
    \/ /\ total > held[p]
       /\ Fits(p, Target(p, total))
       /\ Hold(p, Target(p, total))
    \/ /\ total > held[p]
       /\ ~Fits(p, Target(p, total)) /\ Fits(p, total)
       /\ Hold(p, total)

\* shrink_to the encoded size; an exclusive reservation is kept whole.
Shrink(p) ==
    IF p = exclusive \/ Size[p] >= held[p] THEN UNCHANGED budget
                                           ELSE Hold(p, Size[p])

\* Drop of the reservations of the parts in S.
Release(S) ==
    /\ used' = used - MapThenSumSet(LAMBDA p : held[p], S)
    /\ held' = [p \in Parts |-> IF p \in S THEN 0 ELSE held[p]]
    /\ exclusive' = IF exclusive \in S THEN 0 ELSE exclusive

(******************************* the coordinator ***************************)
\* The front of the queue: alone when it was refused or is estimated to fill
\* the budget.
Alone == Head(queue).exclusive \/ Estimate[Head(queue).part] >= Limit
Admissible ==
    /\ queue # <<>>
    /\ Cardinality(Encoding) < Encoders
    /\ IF Alone THEN MayReserveExclusive
                ELSE MayReserve(Estimate[Head(queue).part])

AdmitEncoder ==
    /\ result = "running" /\ turn = "encoders"
    /\ Admissible
    /\ LET p == Head(queue).part
       IN  /\ IF Alone THEN ReserveExclusive(p) ELSE Reserve(p, Estimate[p])
           /\ stage' = [stage EXCEPT ![p] = "encoding"]
           /\ written' = [written EXCEPT ![p] = 0]
    /\ queue' = Tail(queue)
    /\ UNCHANGED <<turn, outside, failed, result, faults>>

EncodersAdmitted ==
    /\ result = "running" /\ turn = "encoders"
    /\ ~Admissible
    /\ turn' = "receipts"
    /\ UNCHANGED <<queue, stage, budget, written, outside, failed, result, faults>>

\* One receipt write at a time, with every receipt that is ready.
StartRecording ==
    /\ result = "running" /\ turn = "receipts"
    /\ stage' = IF Recording # {} THEN stage
                ELSE [p \in Parts |-> IF stage[p] = "receipts" THEN "recording"
                                                              ELSE stage[p]]
    /\ turn' = "publications"
    /\ UNCHANGED <<queue, budget, written, outside, failed, result, faults>>

StartPublication(p) ==
    /\ result = "running" /\ turn = "publications"
    /\ stage[p] = "publishable"
    /\ Cardinality(Publishing) < Publications
    /\ stage' = [stage EXCEPT ![p] = "publishing"]
    /\ UNCHANGED <<turn, queue, budget, written, outside, failed, result, faults>>

Await ==
    /\ result = "running" /\ turn = "publications"
    /\ In({"publishable"}) = {} \/ Cardinality(Publishing) >= Publications
    /\ turn' = "await"
    /\ UNCHANGED <<queue, stage, budget, written, outside, failed, result, faults>>

\* Fault variant of Fail: the failure returns at once.
FailAtOnce(S) ==
    /\ failed' = TRUE
    /\ queue' = <<>>
    /\ stage' = [p \in Parts |-> IF p \in S \/ stage[p] \in Waiting
                                 THEN "dropped" ELSE stage[p]]
    /\ Release(S \cup In(Waiting))
    /\ result' = "error"
    /\ UNCHANGED turn

\* The outcome of the event is an error: admission stops, the parts that wait
\* are dropped with their reservations, and the loop goes on draining.
Fail(S) ==
    /\ failed' = TRUE
    /\ queue' = IF failed THEN queue ELSE <<>>
    /\ stage' = [p \in Parts |-> IF p \in S \/ stage[p] \in Waiting
                                 THEN "dropped" ELSE stage[p]]
    /\ Release(S \cup In(Waiting))
    /\ UNCHANGED <<turn, result>>

\* The outcome is Ok: the part moves on, or is dropped once a failure stands.
Pass(S, next) ==
    /\ turn' = IF failed THEN turn ELSE "encoders"
    /\ stage' = [p \in Parts |-> IF p \notin S THEN stage[p]
                                 ELSE IF failed THEN "dropped" ELSE next]
    /\ IF failed \/ next = "done" THEN Release(S) ELSE UNCHANGED budget
    /\ UNCHANGED <<queue, failed, result>>

\* Fault variant of Requeue: the part is encoded again beside others.
RequeueShared(p) == <<[part |-> p, exclusive |-> FALSE]>> \o queue

\* A refused part is encoded again alone, at the front of the queue.
Requeue(p) == <<[part |-> p, exclusive |-> TRUE]>> \o queue

\* Event::Encoded.  The part is staged on the lane, or at once.
HandleEncoded(p) ==
    /\ turn = "await" /\ result = "running"
    /\ \/ /\ stage[p] = "encoded"
          /\ Pass({p}, IF lane THEN "staging" ELSE "receipts")
          /\ UNCHANGED faults
       \/ /\ stage[p] = "encoded" /\ ~lane /\ ~failed
          /\ faults < MaxFaults /\ faults' = faults + 1
          /\ Fail({p})
       \/ stage[p] = "encode_failed" /\ Fail({p}) /\ UNCHANGED faults
       \/ /\ stage[p] = "refused"
          /\ queue' = Requeue(p)
          /\ stage' = [stage EXCEPT ![p] = "queued"]
          /\ turn' = IF failed THEN turn ELSE "encoders"
          /\ UNCHANGED <<budget, failed, result, faults>>
    /\ UNCHANGED <<written, outside>>

\* Event::Staged
HandleStaged(p) ==
    /\ turn = "await" /\ result = "running"
    /\ \/ stage[p] = "stage_done" /\ Pass({p}, "receipts")
       \/ stage[p] = "stage_failed" /\ Fail({p})
    /\ UNCHANGED <<written, outside, faults>>

\* Fault variant of HandleRecorded: publication does not wait for the write.
HandleUnrecorded ==
    /\ turn = "await" /\ result = "running"
    /\ \/ In({"recording", "recorded"}) # {}
          /\ Pass(In({"recording", "recorded"}), "publishable")
       \/ In({"record_failed"}) # {} /\ Fail(In({"record_failed"}))
    /\ UNCHANGED <<written, outside, faults>>

\* Event::Recorded, for the whole batch.
HandleRecorded ==
    /\ turn = "await" /\ result = "running"
    /\ \/ In({"recorded"}) # {} /\ Pass(In({"recorded"}), "publishable")
       \/ In({"record_failed"}) # {} /\ Fail(In({"record_failed"}))
    /\ UNCHANGED <<written, outside, faults>>

\* Event::Published; the reservation was dropped with the part.
HandlePublished(p) ==
    /\ turn = "await" /\ result = "running"
    /\ \/ stage[p] = "publish_done" /\ Pass({p}, "done")
       \/ stage[p] = "publish_failed" /\ Fail({p})
    /\ UNCHANGED <<written, outside, faults>>

\* No work is left: the failure, or the check that nothing is unfinished.
Return ==
    /\ turn = "await" /\ result = "running"
    /\ In(Running \cup Finished) = {}
    /\ result' = CASE failed -> "error"
                   [] ~failed /\ queue = <<>> /\ In(Waiting) = {} /\ used = 0
                        -> "ok"
                   [] OTHER -> "unfinished"
    /\ UNCHANGED <<turn, queue, stage, budget, written, outside, failed, faults>>

(********************************** the work *******************************)
\* An encoder writes one more unit under its reservation.
EncoderWrites(p) ==
    /\ stage[p] = "encoding"
    /\ written[p] < Size[p]
    /\ Grow(p, written[p] + 1)
    /\ written' = [written EXCEPT ![p] = @ + 1]
    /\ UNCHANGED <<turn, queue, stage, outside, failed, result, faults>>

\* ReservationExceeded: the encoder drops its bytes and its reservation.
EncoderRefused(p) ==
    /\ stage[p] = "encoding"
    /\ written[p] < Size[p]
    /\ GrowRefused(p, written[p] + 1)
    /\ Release({p})
    /\ stage' = [stage EXCEPT ![p] = "refused"]
    /\ UNCHANGED <<turn, queue, written, outside, failed, result, faults>>

EncoderFinishes(p) ==
    /\ stage[p] = "encoding"
    /\ written[p] = Size[p]
    /\ Shrink(p)
    /\ stage' = [stage EXCEPT ![p] = "encoded"]
    /\ UNCHANGED <<turn, queue, written, outside, failed, result, faults>>

EncoderFails(p) ==
    /\ stage[p] = "encoding"
    /\ faults < MaxFaults
    /\ Release({p})
    /\ stage' = [stage EXCEPT ![p] = "encode_failed"]
    /\ faults' = faults + 1
    /\ UNCHANGED <<turn, queue, written, outside, failed, result>>

\* parts.stage on the lane.
StageEnds(p, ok) ==
    /\ stage[p] = "staging"
    /\ IF ok THEN UNCHANGED <<budget, faults>>
             ELSE faults < MaxFaults /\ faults' = faults + 1 /\ Release({p})
    /\ stage' = [stage EXCEPT ![p] = IF ok THEN "stage_done" ELSE "stage_failed"]
    /\ UNCHANGED <<turn, queue, written, outside, failed, result>>

\* record_receipts: an error may hide a write that landed.
RecordEnds(lands, ok) ==
    /\ In({"recording"}) # {}
    /\ ok => lands
    /\ ok \/ faults < MaxFaults
    /\ faults' = IF ok THEN faults ELSE faults + 1
    /\ receipts' = IF lands THEN receipts \cup In({"recording"}) ELSE receipts
    /\ stage' = [p \in Parts |->
                    IF stage[p] # "recording" THEN stage[p]
                    ELSE IF ok THEN "recorded" ELSE "record_failed"]
    /\ UNCHANGED <<turn, queue, budget, written, published, failed, result, lane>>

\* parts.publish: an error may hide a file that landed.  The part and its
\* reservation are dropped before the event is seen.
PublishEnds(p, lands, ok) ==
    /\ stage[p] = "publishing"
    /\ ok => lands
    /\ ok \/ faults < MaxFaults
    /\ faults' = IF ok THEN faults ELSE faults + 1
    /\ published' = IF lands THEN published \cup {p} ELSE published
    /\ stage' = [stage EXCEPT ![p] = IF ok THEN "publish_done"
                                           ELSE "publish_failed"]
    /\ Release({p})
    /\ UNCHANGED <<turn, queue, written, receipts, failed, result, lane>>

Coordinator ==
    \/ AdmitEncoder \/ EncodersAdmitted \/ StartRecording \/ Await
    \/ \E p \in Parts : StartPublication(p)
    \/ \E p \in Parts : \/ HandleEncoded(p) \/ HandleStaged(p)
                        \/ HandlePublished(p)
    \/ HandleRecorded
    \/ Return

Work(p) == \/ EncoderWrites(p) \/ EncoderRefused(p) \/ EncoderFinishes(p)
           \/ EncoderFails(p)
           \/ \E ok \in BOOLEAN : StageEnds(p, ok)
           \/ \E lands, ok \in BOOLEAN : PublishEnds(p, lands, ok)
Record == \E lands, ok \in BOOLEAN : RecordEnds(lands, ok)

Next == Coordinator \/ Record \/ \E p \in Parts : Work(p)

Spec == Init /\ [][Next]_vars
FairSpec == /\ Spec
            /\ WF_vars(Coordinator)
            /\ WF_vars(Record)
            /\ \A p \in Parts : WF_vars(Work(p))

(******************************** properties *******************************)
\* The budget is never exceeded, except by one exclusive part that holds it
\* alone, and its counter is exactly what the live reservations hold: no path
\* (refusal, failure, drain) leaks bytes (budget.rs).
BudgetHeld ==
    /\ used = MapThenSumSet(LAMBDA p : held[p], Parts)
    /\ used > Limit => exclusive # 0
    /\ exclusive # 0 => \A p \in Parts \ {exclusive} : held[p] = 0

\* A file reaches its final name only after its receipt is durable
\* (publish_parts): recovery can name every file that a crash left behind.
ReceiptBeforeFile == published \subseteq receipts

\* publish_parts returns only when no encoder, write or request can still act
\* and every reservation is released; it returns Ok only with every part
\* published, an error only after a real failure, and never "unfinished".
DrainedBeforeReturn ==
    result # "running" =>
        /\ In(Running \cup Finished) = {}
        /\ used = 0
        /\ result = "ok" => published = Parts
        /\ result # "ok" => result = "error" /\ faults > 0

\* The flush returns: refused growth, parts larger than the budget and the
\* bounds on encoders and publications never leave everyone waiting.
FlushReturns == <>(result # "running")
=============================================================================
