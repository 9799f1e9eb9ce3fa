------------------------------ MODULE S3Control ------------------------------
(* Bucket ownership and the fixed control slots of an S3 dataset            *)
(* (dataset_lock_s3.rs, durable_state_s3.rs, dataset_lock/operation.rs).    *)
(*                                                                          *)
(* A command acquires one owner record per bucket with a conditional PUT,   *)
(* mutates the control slots under it with conditional PUTs, and releases   *)
(* the record.  A PUT is a request in flight: the provider may apply it at  *)
(* any later time, apply a copy of it again, refuse it or lose it.  The     *)
(* command learns the outcome only by reading the object back; when no      *)
(* reading proves it the command latches its ownership as uncertain and     *)
(* leaves the record Owned for the operator.  An object's version (ETag) is *)
(* its content, which is what a digest ETag gives.                          *)
EXTENDS Naturals, FiniteSets

CONSTANTS
    Commands,         \* command runs; each acquires at most once (owner_id)
    Nobody,           \* the owner_id of no record
    Keys,             \* control slots (ControlKey)
    Payloads,         \* control payloads
    MaxIncarnations,  \* bound: control records ever created
    MaxRevision,      \* bound: revision of one incarnation
    ReleaseAttempts   \* length of RELEASE_DELAYS

ASSUME CommandsAssumption == Nobody \notin Commands
ASSUME BoundsAssumption == /\ MaxIncarnations \in Nat
                           /\ MaxRevision \in Nat
                           /\ ReleaseAttempts \in Nat

VARIABLES
    owner,         \* the object at OWNER_KEY
    slots,         \* the objects at the control keys
    ownerFlights,  \* conditional PUTs of OWNER_KEY the provider may still act on
    slotFlights,   \* the same for the control keys
    pc,            \* where each command is
    seen,          \* the owner record a command read before its PUT
    put,           \* the control PUT a command is carrying out
    uncertain,     \* mutation_uncertain of each command's guard
    tries,         \* release attempts left
    incarnations,  \* incarnations drawn so far (uuids, numbered in order)
    operator       \* the record the operator is about to release, or NoRecord

vars == <<owner, slots, ownerFlights, slotFlights, pc, seen, put,
          uncertain, tries, incarnations, operator>>

\* OwnerRecord: Absent, Owned or Released; receipt marks operator recovery.
NoRecord == [gen |-> 0, id |-> Nobody, state |-> "absent", receipt |-> FALSE]
Owned(c, g) == [gen |-> g, id |-> c, state |-> "owned", receipt |-> FALSE]
Released(r, receipt) ==
    [gen |-> r.gen, id |-> r.id, state |-> "released", receipt |-> receipt]
Records == [gen : Nat, id : Commands \cup {Nobody},
            state : {"absent", "owned", "released"}, receipt : BOOLEAN]

\* A control record: absent (incarnation 0), a payload, or a tombstone.
NoPayload == [deleted |-> TRUE]
NoSlot == [inc |-> 0, rev |-> 0, body |-> NoPayload]
Contents == [inc : Nat, rev : Nat,
             body : {NoPayload} \cup [payload : Payloads]]
HasPayload(s) == s.body # NoPayload

OwnerPuts == [expect : Records, write : Records, by : Commands \cup {Nobody}]
SlotPuts == [key : Keys, expect : Contents, write : Contents, by : Commands]

\* No control PUT prepared yet.
NoPut == [by |-> Nobody]

\* In the guard's lifetime: acquire returned and neither release nor drop ended it.
Holding == {"held", "checked", "putting", "releasing", "unconfirmed"}
Phases == Holding \cup {"idle", "read", "acquiring", "ended"}

TypeOK ==
    /\ owner \in Records
    /\ slots \in [Keys -> Contents]
    /\ ownerFlights \subseteq OwnerPuts
    /\ slotFlights \subseteq SlotPuts
    /\ pc \in [Commands -> Phases]
    /\ seen \in [Commands -> Records]
    /\ put \in [Commands -> SlotPuts \cup {NoPut}]
    /\ \A c \in Commands : pc[c] \in {"checked", "putting"} => put[c] \in SlotPuts
    /\ uncertain \in [Commands -> BOOLEAN]
    /\ tries \in [Commands -> Nat]
    /\ incarnations \in Nat
    /\ operator \in Records

Init ==
    /\ owner = NoRecord
    /\ slots = [k \in Keys |-> NoSlot]
    /\ ownerFlights = {}
    /\ slotFlights = {}
    /\ pc = [c \in Commands |-> "idle"]
    /\ seen = [c \in Commands |-> NoRecord]
    /\ put = [c \in Commands |-> NoPut]
    /\ uncertain = [c \in Commands |-> FALSE]
    /\ tries = [c \in Commands |-> ReleaseAttempts]
    /\ incarnations = 0
    /\ operator = NoRecord

\* The record command c writes: the generation after the one it read.
Mine(c) == Owned(c, seen[c].gen + 1)

Goto(c, phase) == pc' = [pc EXCEPT ![c] = phase]

-----------------------------------------------------------------------------
(* The provider: one conditional PUT is applied exactly when the object     *)
(* still is what the request expects.  The transport may hold a copy back.  *)

ApplyOwnerPut ==
    \E f \in ownerFlights :
        /\ owner = f.expect
        /\ owner' = f.write
        /\ ownerFlights' \in {ownerFlights, ownerFlights \ {f}}
        /\ UNCHANGED <<slots, slotFlights, pc, seen, put, uncertain,
                       tries, incarnations, operator>>

ApplySlotPut ==
    \E f \in slotFlights :
        /\ slots[f.key] = f.expect
        /\ slots' = [slots EXCEPT ![f.key] = f.write]
        /\ slotFlights' \in {slotFlights, slotFlights \ {f}}
        /\ UNCHANGED <<owner, ownerFlights, pc, seen, put, uncertain,
                       tries, incarnations, operator>>

\* Lost on the way, or refused because its condition no longer holds.
LoseOwnerPut ==
    \E f \in ownerFlights :
        /\ ownerFlights' = ownerFlights \ {f}
        /\ UNCHANGED <<owner, slots, slotFlights, pc, seen, put,
                       uncertain, tries, incarnations, operator>>

LoseSlotPut ==
    \E f \in slotFlights :
        /\ slotFlights' = slotFlights \ {f}
        /\ UNCHANGED <<owner, slots, ownerFlights, pc, seen, put,
                       uncertain, tries, incarnations, operator>>

-----------------------------------------------------------------------------
(* S3Ownership::acquire.                                                    *)

\* read_record; an Owned record is Busy and ends the command.
ReadOwner(c) ==
    /\ pc[c] = "idle"
    /\ seen' = [seen EXCEPT ![c] = owner]
    /\ Goto(c, IF owner.state = "owned" THEN "ended" ELSE "read")
    /\ UNCHANGED <<owner, slots, ownerFlights, slotFlights, put,
                   uncertain, tries, incarnations, operator>>

\* The canary passed: Create, or CAS on the version read before it.
SendAcquire(c) ==
    /\ pc[c] = "read"
    /\ ownerFlights' = ownerFlights \cup
           {[expect |-> seen[c], write |-> Mine(c), by |-> c]}
    /\ Goto(c, "acquiring")
    /\ UNCHANGED <<owner, slots, slotFlights, seen, put, uncertain,
                   tries, incarnations, operator>>

\* Fault variant of Acquired: the readback compares the generation only.
AcquiredByGeneration(c) ==
    /\ pc[c] = "acquiring"
    /\ owner.state = "owned"
    /\ owner.gen = Mine(c).gen
    /\ Goto(c, "held")
    /\ UNCHANGED <<owner, slots, ownerFlights, slotFlights, seen, put,
                   uncertain, tries, incarnations, operator>>

\* write_and_verify read back exactly the proposed record.
Acquired(c) ==
    /\ pc[c] = "acquiring"
    /\ owner = Mine(c)
    /\ Goto(c, "held")
    /\ UNCHANGED <<owner, slots, ownerFlights, slotFlights, seen, put,
                   uncertain, tries, incarnations, operator>>

\* Canary unproven, a foreign record, or no reading proved the PUT.
AcquireFailed(c) ==
    /\ pc[c] \in {"read", "acquiring"}
    /\ Goto(c, "ended")
    /\ UNCHANGED <<owner, slots, ownerFlights, slotFlights, seen, put,
                   uncertain, tries, incarnations, operator>>

-----------------------------------------------------------------------------
(* S3StateStore::create, replace and remove, one at a time under the control *)
(* mutex.  The version a caller passes is the one it loaded or wrote last;   *)
(* only the current one passes require_version.                              *)

\* The request create, replace or remove builds from the record it checked.
Prepare(c, k, expect, write) ==
    /\ put' = [put EXCEPT ![c] =
                  [key |-> k, expect |-> expect, write |-> write, by |-> c]]
    /\ Goto(c, "checked")

\* Fault variant of Create: every record of a slot has the same incarnation.
CreateSameIncarnation(c, k, p) ==
    /\ pc[c] = "held"
    /\ ~uncertain[c]
    /\ ~HasPayload(slots[k])
    /\ Prepare(c, k, slots[k], [inc |-> 1, rev |-> 0, body |-> [payload |-> p]])
    /\ UNCHANGED <<owner, slots, ownerFlights, slotFlights, seen,
                   uncertain, tries, incarnations, operator>>

\* require_resolved_owner, then read_slot: absent or a tombstone is filled
\* with a fresh incarnation.
Create(c, k, p) ==
    /\ pc[c] = "held"
    /\ ~uncertain[c]
    /\ ~HasPayload(slots[k])
    /\ incarnations < MaxIncarnations
    /\ incarnations' = incarnations + 1
    /\ Prepare(c, k, slots[k], [inc |-> incarnations + 1, rev |-> 0,
                                body |-> [payload |-> p]])
    /\ UNCHANGED <<owner, slots, ownerFlights, slotFlights, seen,
                   uncertain, tries, operator>>

\* require_version: the slot is live and exactly the caller's version; then
\* the next revision, with a payload (replace) or a tombstone (remove).
ReplaceOrRemove(c, k, body) ==
    /\ pc[c] = "held"
    /\ ~uncertain[c]
    /\ HasPayload(slots[k])
    /\ slots[k].rev < MaxRevision
    /\ Prepare(c, k, slots[k],
               [inc |-> slots[k].inc, rev |-> slots[k].rev + 1, body |-> body])
    /\ UNCHANGED <<owner, slots, ownerFlights, slotFlights, seen, uncertain,
                   tries, incarnations, operator>>

\* put_and_verify sends the request.
SendPut(c) ==
    /\ pc[c] = "checked"
    /\ slotFlights' = slotFlights \cup {put[c]}
    /\ Goto(c, "putting")
    /\ UNCHANGED <<owner, slots, ownerFlights, seen, put, uncertain,
                   tries, incarnations, operator>>

\* put_and_verify returns.
PutReturns(c) ==
    /\ pc[c] = "putting"
    /\ put' = [put EXCEPT ![c] = NoPut]
    /\ Goto(c, "held")
    /\ UNCHANGED <<owner, slots, ownerFlights, seen, tries, incarnations,
                   operator>>

\* A readback shows exactly the bytes written: the attempt is resolved.
PutProved(c) ==
    /\ PutReturns(c)
    /\ slots[put[c].key] = put[c].write
    /\ UNCHANGED <<slotFlights, uncertain>>

\* provider_rejection: after a 401 or 403 the request cannot take effect.
PutRejected(c) ==
    /\ PutReturns(c)
    /\ put[c] \in slotFlights
    /\ slots[put[c].key] # put[c].write
    /\ slotFlights' = slotFlights \ {put[c]}
    /\ UNCHANGED uncertain

\* Fault variant of PutUnresolved: the latch is not set.
PutForgotten(c) ==
    /\ PutReturns(c)
    /\ UNCHANGED <<slotFlights, uncertain>>

\* No reading proved it, or the future was cancelled: MutationAttempt::drop.
PutUnresolved(c) ==
    /\ PutReturns(c)
    /\ uncertain' = [uncertain EXCEPT ![c] = TRUE]
    /\ UNCHANGED slotFlights

-----------------------------------------------------------------------------
(* DatasetOwnership::finish and S3Ownership::release.                       *)

\* Fault variant of Finish: release does not look at the latch.
FinishIgnoringLatch(c) ==
    /\ pc[c] = "held"
    /\ Goto(c, IF ReleaseAttempts = 0 THEN "ended" ELSE "releasing")
    /\ UNCHANGED <<owner, slots, ownerFlights, slotFlights, seen, put,
                   uncertain, tries, incarnations, operator>>

\* A set latch keeps the record: release sends nothing.
Finish(c) ==
    /\ pc[c] = "held"
    /\ Goto(c, IF uncertain[c] \/ ReleaseAttempts = 0 THEN "ended"
               ELSE "releasing")
    /\ UNCHANGED <<owner, slots, ownerFlights, slotFlights, seen, put,
                   uncertain, tries, incarnations, operator>>

\* release_once: reads the record, sends the CAS from this owner's version.
ReleaseOnce(c) ==
    /\ pc[c] = "releasing"
    /\ tries[c] > 0
    /\ tries' = [tries EXCEPT ![c] = @ - 1]
    /\ IF owner = Mine(c)
       THEN /\ ownerFlights' = ownerFlights \cup
                 {[expect |-> Mine(c), write |-> Released(Mine(c), FALSE),
                   by |-> c]}
            /\ Goto(c, "unconfirmed")
       ELSE /\ Goto(c, "ended")        \* already Released, or StateChanged
            /\ UNCHANGED ownerFlights
    /\ UNCHANGED <<owner, slots, slotFlights, seen, put, uncertain,
                   incarnations, operator>>

\* read_record failed: the attempt is spent, nothing was sent.
ReleaseReadFailed(c) ==
    /\ pc[c] = "releasing"
    /\ tries[c] > 0
    /\ tries' = [tries EXCEPT ![c] = @ - 1]
    /\ Goto(c, IF tries[c] > 1 THEN "releasing" ELSE "ended")
    /\ UNCHANGED <<owner, slots, ownerFlights, slotFlights, seen, put,
                   uncertain, incarnations, operator>>

\* The readback proved the release.
ReleaseProved(c) ==
    /\ pc[c] = "unconfirmed"
    /\ owner = Released(Mine(c), FALSE)
    /\ Goto(c, "ended")
    /\ UNCHANGED <<owner, slots, ownerFlights, slotFlights, seen, put,
                   uncertain, tries, incarnations, operator>>

\* ReadFailed or MutationUncertain: the next attempt, or the record is kept.
ReleaseUnresolved(c) ==
    /\ pc[c] = "unconfirmed"
    /\ Goto(c, IF tries[c] > 0 THEN "releasing" ELSE "ended")
    /\ UNCHANGED <<owner, slots, ownerFlights, slotFlights, seen, put,
                   uncertain, tries, incarnations, operator>>

\* The process dies, or the guard is dropped: nothing is sent.
Crash(c) ==
    /\ pc[c] \notin {"idle", "ended"}
    /\ put' = [put EXCEPT ![c] = NoPut]
    /\ Goto(c, "ended")
    /\ UNCHANGED <<owner, slots, ownerFlights, slotFlights, seen,
                   uncertain, tries, incarnations, operator>>

-----------------------------------------------------------------------------
(* fireparq recovery release: operator_release with the evidence that the   *)
(* owner stopped and that the provider has settled every request it sent.   *)

Quiescent(c) ==
    /\ pc[c] = "ended"
    /\ \A f \in ownerFlights : f.by # c
    /\ \A f \in slotFlights : f.by # c

\* Fault variant of Authorize: only the owner's end is attested.
AuthorizeUnsettled ==
    /\ operator = NoRecord
    /\ owner.state = "owned"
    /\ pc[owner.id] = "ended"
    /\ operator' = owner
    /\ UNCHANGED <<owner, slots, ownerFlights, slotFlights, pc, seen,
                   put, uncertain, tries, incarnations>>

\* assert_provider_quiescence over the record status shows; read_record agrees.
Authorize ==
    /\ operator = NoRecord
    /\ owner.state = "owned"
    /\ Quiescent(owner.id)
    /\ operator' = owner
    /\ UNCHANGED <<owner, slots, ownerFlights, slotFlights, pc, seen,
                   put, uncertain, tries, incarnations>>

\* Fault variant of SendOperatorRelease: PutMode::Create instead of the CAS.
SendOperatorCreate ==
    /\ operator # NoRecord
    /\ ownerFlights' = ownerFlights \cup
           {[expect |-> NoRecord, write |-> Released(operator, TRUE),
             by |-> Nobody]}
    /\ operator' = NoRecord
    /\ UNCHANGED <<owner, slots, slotFlights, pc, seen, put, uncertain,
                   tries, incarnations>>

\* The CAS from the version read.  Whatever its readback proves, the operator
\* may look at the record again.
SendOperatorRelease ==
    /\ operator # NoRecord
    /\ ownerFlights' = ownerFlights \cup
           {[expect |-> operator, write |-> Released(operator, TRUE),
             by |-> Nobody]}
    /\ operator' = NoRecord
    /\ UNCHANGED <<owner, slots, slotFlights, pc, seen, put, uncertain,
                   tries, incarnations>>

\* The canary failed: nothing was sent.
OperatorGivesUp ==
    /\ operator # NoRecord
    /\ operator' = NoRecord
    /\ UNCHANGED <<owner, slots, ownerFlights, slotFlights, pc, seen,
                   put, uncertain, tries, incarnations>>

-----------------------------------------------------------------------------
Provider == ApplyOwnerPut \/ ApplySlotPut \/ LoseOwnerPut \/ LoseSlotPut

Command(c) ==
    \/ ReadOwner(c) \/ SendAcquire(c) \/ Acquired(c) \/ AcquireFailed(c)
    \/ \E k \in Keys, p \in Payloads : Create(c, k, p)
    \/ \E k \in Keys, b \in {NoPayload} \cup [payload : Payloads] :
           ReplaceOrRemove(c, k, b)
    \/ SendPut(c) \/ PutProved(c) \/ PutRejected(c) \/ PutUnresolved(c)
    \/ Finish(c) \/ ReleaseOnce(c) \/ ReleaseReadFailed(c)
    \/ ReleaseProved(c) \/ ReleaseUnresolved(c) \/ Crash(c)

Operator == Authorize \/ SendOperatorRelease \/ OperatorGivesUp

Next == Provider \/ (\E c \in Commands : Command(c)) \/ Operator

Spec == Init /\ [][Next]_vars

\* An operator who keeps retrying, and a provider that neither holds a request
\* forever nor refuses every one of them.
Persistence ==
    /\ WF_vars(LoseOwnerPut)
    /\ WF_vars(LoseSlotPut)
    /\ WF_vars(Authorize)
    /\ SF_vars(SendOperatorRelease)
    /\ SF_vars(ApplyOwnerPut)

FairSpec == Spec /\ Persistence

-----------------------------------------------------------------------------
(* Correctness.                                                             *)

\* A command that may still mutate: acquire returned and finish has not begun.
Mutating == {"held", "checked", "putting"}

\* A guard is exclusive: while a command can mutate the dataset the owner
\* record is exactly the one it wrote, however late acquire or release PUTs of
\* other commands are applied (S3Ownership::acquire, release).
GuardMeansOwned == \A c \in Commands : pc[c] \in Mutating => owner = Mine(c)

\* A control PUT that the provider could still apply belongs to the command
\* the owner record names, whether that command holds its guard, died, or
\* kept its record with the latch set.  A request a command was told is
\* resolved can no longer take effect (durable_state_s3.rs, put_and_verify).
NoStrayPut ==
    \A f \in slotFlights :
        slots[f.key] = f.expect => owner = Mine(f.by)

\* What create, replace or remove checked stays true until its PUT lands: the
\* slot is what the request expects or already what it writes.
CheckedStaysCurrent ==
    \A c \in Commands :
        pc[c] \in {"checked", "putting"} =>
            slots[put[c].key] \in {put[c].expect, put[c].write}

\* Lexicographic order of control versions.
Later(s, t) == s.inc > t.inc \/ (s.inc = t.inc /\ s.rev > t.rev)

\* A control slot never returns to an earlier version, through tombstones and
\* recreations too, so a delayed conditional PUT stays refused (the ABA the
\* incarnation prevents), and it is never absent again.
VersionsNeverRecur ==
    [][\A k \in Keys : slots'[k] # slots[k] => Later(slots'[k], slots[k])]_vars

\* An owner whose mutation outcome is unknown is released only by the
\* operator's receipt, never by the command itself (DataMutationUncertain).
UncertainKeepsOwner ==
    [][\A c \in Commands :
          owner = Mine(c) /\ uncertain[c] /\ owner' # owner =>
              owner' = Released(Mine(c), TRUE)]_vars

\* Recoverability: a record left Owned by a command that ended is eventually
\* released; no state makes operator_release refuse it for good.
RetainedIsReleased ==
    (\E c \in Commands : pc[c] = "ended" /\ owner = Mine(c))
        ~> (owner.state = "released")

=============================================================================
